---- MODULE Spec2Model ----
(***************************************************************************)
(* Entity registry and LOD scheduler of the 3D entity manager.             *)
(*                                                                         *)
(* Units.  Altitudes, ECEF coordinates and distances are whole metres.     *)
(* Longitude and latitude are counted in units of 1e-10 degree, attitude   *)
(* angles in units of 1e-7 degree and the scale factor in units of 1e-7,   *)
(* so that the epsilons of LodConfig.h (1e-9, 1e-6) and of setScale (1e-6) *)
(* are each 10 units.  Times are milliseconds since the construction of    *)
(* the manager.                                                            *)
(***************************************************************************)
EXTENDS Integers, Sequences, FiniteSets, TLC

\* ---------------------------------------------------------------- LodConfig
DISTANCE_NEAR == 500000
DISTANCE_MID == 2000000
DISTANCE_FAR == 5000000

SENSOR_AZI_STEP_HIGH == 10
SENSOR_AZI_STEP_MID == 20
SENSOR_AZI_STEP_LOW == 40

SENSOR_ELE_STEP_HIGH == 10
SENSOR_ELE_STEP_MID == 20
SENSOR_ELE_STEP_LOW == 40

TRACKLINE_LAYERS_HIGH == 150
TRACKLINE_LAYERS_MID == 80
TRACKLINE_LAYERS_LOW == 40

UPDATE_INTERVAL_NEAR == 50
UPDATE_INTERVAL_MID == 100
UPDATE_INTERVAL_FAR == 200

\* 1e-9 degree, in units of 1e-10 degree
POSITION_EPSILON == 10
\* 1e-6 degree, in units of 1e-7 degree
ATTITUDE_EPSILON == 10
\* the literal 1e-6 of Object3D::setScale, in units of 1e-7
SCALE_EPSILON == 10
\* the scale factor 1.0, in units of 1e-7
SCALE_ONE == 10000000

\* the literal 1.0 of SensorVolume::setRadius, in hundredths of a unit
SENSOR_RADIUS_GUARD == 100
\* the literal 1.0 of TrackLine::setLength, in hundredths of a unit
TRACK_LENGTH_GUARD == 100
\* the literal 0.1 of TrackLine::setRadius, in hundredths of a unit
TRACK_RADIUS_GUARD == 10
\* `segments` of TrackLine::createVertices
TRACK_SEGMENTS == 16

\* equatorial radius of the default osg::EllipsoidModel, metres
WGS_84_RADIUS_EQUATOR == 6378137

\* ------------------------------------------------------------------- bounds
MaxId == 2
MaxTime == 200
MaxFrames == 2
MaxGens == 1
MaxBatch == 2
MaxPairs == 2

Ids == 1..MaxId
\* the ids of the scripted scenario
ScenarioIds == {1, 2, 3}
AllIds == Ids \cup ScenarioIds
Types == {"SHIP", "MISSILE"}

Abs(x) == IF x < 0 THEN 0 - x ELSE x

\* Altitudes (metres) a producer submits, the camera standing at altitude 0
\* of the same longitude and latitude: 300 km, exactly NEAR, exactly MID,
\* exactly FAR, 6000 km.
AltsWithinNear == {300000}
AltsBeyondFar == {6000000}
AltsAll == AltsWithinNear \cup {DISTANCE_NEAR, DISTANCE_MID, DISTANCE_FAR} \cup AltsBeyondFar

\* Headings a producer submits: 0 and 90 degrees (units of 1e-7 degree).
Headings == {0, 900000000}

\* Clock advances between two operations, milliseconds.
Deltas == {25, UPDATE_INTERVAL_NEAR, UPDATE_INTERVAL_MID}

\* Clock advances while one tick runs, milliseconds.
TickSkews == {0, 25}

\* no time yet
None == 0 - 1

VARIABLES
    clock,          \* QDateTime::currentMSecsSinceEpoch()
    m_camera,       \* [valid, eye]: the osg::Camera handed to the constructor
    m_entities,     \* QMap<int, ManagedEntity>
    m_frameCount,
    last,           \* the operation just executed, its argument and result
    h,              \* history: ids created and not removed since (live), per
                    \* id the time of its last updateIfDirty call (lastFlush),
                    \* ids updateAll has visited since their creation (ticked)
    pc,             \* position in the scripted scenario, "free" outside it
    obj,            \* an Object3D of its own, outside the manager
    gen,            \* a SensorVolume or TrackLine of its own
    ptm             \* the PerformanceTestManager with its own entity list

vars == <<clock, m_camera, m_entities, m_frameCount, last, h, pc, obj, gen, ptm>>

\* ------------------------------------------------------------------ Object3D
IdentityEarth == [ident |-> TRUE, trans |-> 0, lon |-> 0, lat |-> 0]
IdentityOnce == [ident |-> TRUE, scale |-> SCALE_ONE, h |-> 0, p |-> 0, r |-> 0]

\* osg::Switch as Object3D uses it: the on/off values, one per position
\* (position 0 of the source is index 1 here), and the number of children.
\* The constructor adds the model subgraph at position 0, switched on.
LodSwitch == [values |-> <<TRUE>>, numChildren |-> 1]

\* m_lodSwitch->setValue(pos, value): the value list grows to hold pos, new
\* entries taking the switch's default (on), then the entry is set
SwitchSetValue(sw, pos, value) ==
    LET grown == IF pos + 1 > Len(sw.values)
                 THEN sw.values \o [i \in 1..(pos + 1 - Len(sw.values)) |-> TRUE]
                 ELSE sw.values
    IN [sw EXCEPT !.values = [grown EXCEPT ![pos + 1] = value]]

\* m_lodSwitch->addChild(node, value): the child goes to the end of the
\* child list and the value at its position is set
SwitchAddChild(sw, value) ==
    LET grown == IF sw.numChildren + 1 > Len(sw.values)
                 THEN Append(sw.values, TRUE)
                 ELSE sw.values
    IN [values |-> [grown EXCEPT ![sw.numChildren + 1] = value],
        numChildren |-> sw.numChildren + 1]

\* Object3D::Object3D
Object3D ==
    [m_longitude |-> 0, m_latitude |-> 0, m_altitude |-> 0,
     m_heading |-> 0, m_pitch |-> 0, m_roll |-> 0,
     m_scale |-> SCALE_ONE,
     m_visible |-> TRUE,
     m_positionDirty |-> TRUE, m_attitudeDirty |-> TRUE, m_scaleDirty |-> TRUE,
     m_earthTransform |-> IdentityEarth,
     m_onceTransform |-> IdentityOnce,
     nodeMask |-> TRUE,
     m_lodSwitch |-> LodSwitch,
     m_billboardNode |-> FALSE,
     m_nearDistance |-> DISTANCE_NEAR,
     m_autoLOD |-> TRUE,
     gens |-> << >>]

\* |a - b| < 1e-9 for two altitudes in whole metres: the difference is a
\* whole number of metres, so it is below the epsilon exactly when it is 0.
AltBelowEps(a, b) == Abs(a - b) < 1

\* setPosition without the epsilon test
SetPositionUngated(o, lon, lat, alt) ==
    [o EXCEPT !.m_longitude = lon, !.m_latitude = lat,
              !.m_altitude = alt, !.m_positionDirty = TRUE]

\* setPosition that returns as soon as one component is within the epsilon
SetPositionAnyWithinEpsilon(o, lon, lat, alt) ==
    IF \/ Abs(o.m_longitude - lon) < POSITION_EPSILON
       \/ Abs(o.m_latitude - lat) < POSITION_EPSILON
       \/ AltBelowEps(o.m_altitude, alt)
    THEN o
    ELSE [o EXCEPT !.m_longitude = lon, !.m_latitude = lat,
                   !.m_altitude = alt, !.m_positionDirty = TRUE]

\* Object3D::setPosition
SetPosition(o, lon, lat, alt) ==
    IF /\ Abs(o.m_longitude - lon) < POSITION_EPSILON
       /\ Abs(o.m_latitude - lat) < POSITION_EPSILON
       /\ AltBelowEps(o.m_altitude, alt)
    THEN o
    ELSE [o EXCEPT !.m_longitude = lon, !.m_latitude = lat,
                   !.m_altitude = alt, !.m_positionDirty = TRUE]

\* Object3D::setAttitude
SetAttitude(o, heading, pitch, roll) ==
    IF /\ Abs(o.m_heading - heading) < ATTITUDE_EPSILON
       /\ Abs(o.m_pitch - pitch) < ATTITUDE_EPSILON
       /\ Abs(o.m_roll - roll) < ATTITUDE_EPSILON
    THEN o
    ELSE [o EXCEPT !.m_heading = heading, !.m_pitch = pitch,
                   !.m_roll = roll, !.m_attitudeDirty = TRUE]

\* setScale that also skips a change of exactly the epsilon
SetScaleSkipsAtEpsilon(o, scale) ==
    IF Abs(o.m_scale - scale) <= SCALE_EPSILON
    THEN o
    ELSE [o EXCEPT !.m_scale = scale, !.m_scaleDirty = TRUE]

\* Object3D::setScale
SetScale(o, scale) ==
    IF Abs(o.m_scale - scale) < SCALE_EPSILON
    THEN o
    ELSE [o EXCEPT !.m_scale = scale, !.m_scaleDirty = TRUE]

\* Object3D::setVisible
\* Object3D::setVisible writing the node mask only, whatever the flag says
SetVisibleMaskOnly(o, visible) == [o EXCEPT !.nodeMask = visible]

\* Object3D::setVisible
SetVisible(o, visible) ==
    IF o.m_visible # visible
    THEN [o EXCEPT !.m_visible = visible, !.nodeMask = visible]
    ELSE o

\* Geodetic to ECEF on the default ellipsoid.  Every modelled position has
\* |lon|, |lat| below 1e-6 degree, where the conversion gives
\* X = a + alt and Y, Z below a millimetre, which vanish in every distance
\* the model compares with a threshold; only X is carried.
ConvertLatLongHeightToXYZ(lat, lon, alt) == WGS_84_RADIUS_EQUATOR + alt

\* Object3D::updateEarthTransform: the local-to-world matrix at the ECEF
\* point; its translation is the ECEF point, its rotation is fixed by the
\* geodetic longitude and latitude.
UpdateEarthTransform(o) ==
    [o EXCEPT !.m_earthTransform =
        [ident |-> FALSE,
         trans |-> ConvertLatLongHeightToXYZ(o.m_latitude, o.m_longitude, o.m_altitude),
         lon |-> o.m_longitude, lat |-> o.m_latitude]]

\* Object3D::updateOnceTransform: scale * rotation(heading, pitch, roll)
UpdateOnceTransform(o) ==
    [o EXCEPT !.m_onceTransform =
        [ident |-> FALSE, scale |-> o.m_scale,
         h |-> o.m_heading, p |-> o.m_pitch, r |-> o.m_roll]]

UpdateIfDirtyPosition(o) ==
    IF o.m_positionDirty
    THEN [UpdateEarthTransform(o) EXCEPT !.m_positionDirty = FALSE]
    ELSE o

\* the second test of updateIfDirty without the scale flag
UpdateIfDirtyOnceAttitudeOnly(o) ==
    IF o.m_attitudeDirty
    THEN [UpdateOnceTransform(o) EXCEPT !.m_attitudeDirty = FALSE,
                                        !.m_scaleDirty = FALSE]
    ELSE o

UpdateIfDirtyOnce(o) ==
    IF o.m_attitudeDirty \/ o.m_scaleDirty
    THEN [UpdateOnceTransform(o) EXCEPT !.m_attitudeDirty = FALSE,
                                        !.m_scaleDirty = FALSE]
    ELSE o

\* Object3D::updateIfDirty
UpdateIfDirty(o) == UpdateIfDirtyOnce(UpdateIfDirtyPosition(o))

\* Object3D::setBillboardImage; loaded tells whether osgDB::readImageFile
\* returned an image.  m_billboardNode is whether the node exists.
SetBillboardImage(o, loaded) ==
    LET o1 == IF loaded THEN [o EXCEPT !.m_billboardNode = TRUE] ELSE o
    IN IF o1.m_billboardNode
       THEN IF o1.m_lodSwitch.numChildren < 2
            THEN [o1 EXCEPT !.m_lodSwitch = SwitchAddChild(@, FALSE)]
            ELSE o1
       ELSE o1

\* Object3D::setLODDistances
SetLODDistances(o, nearDist) == [o EXCEPT !.m_nearDistance = nearDist]

\* updateLOD that also shows the model at a distance equal to the threshold
UpdateLODInclusiveNear(o, eyePosition) ==
    IF ~o.m_autoLOD
    THEN o
    ELSE IF Abs(eyePosition - o.m_earthTransform.trans) <= o.m_nearDistance
    THEN [o EXCEPT !.m_lodSwitch =
             SwitchSetValue(SwitchSetValue(@, 0, TRUE), 1, FALSE)]
    ELSE [o EXCEPT !.m_lodSwitch =
             SwitchSetValue(SwitchSetValue(@, 0, FALSE), 1, TRUE)]

\* updateLOD that, beyond the threshold, switches back to the model when the
\* billboard is already selected
UpdateLODFlipsWhenFar(o, eyePosition) ==
    IF ~o.m_autoLOD
    THEN o
    ELSE IF \/ Abs(eyePosition - o.m_earthTransform.trans) < o.m_nearDistance
            \/ o.m_lodSwitch.values = <<FALSE, TRUE>>
    THEN [o EXCEPT !.m_lodSwitch =
             SwitchSetValue(SwitchSetValue(@, 0, TRUE), 1, FALSE)]
    ELSE [o EXCEPT !.m_lodSwitch =
             SwitchSetValue(SwitchSetValue(@, 0, FALSE), 1, TRUE)]

\* updateLOD without the m_autoLOD test
UpdateLODIgnoresAutoFlag(o, eyePosition) ==
    IF Abs(eyePosition - o.m_earthTransform.trans) < o.m_nearDistance
    THEN [o EXCEPT !.m_lodSwitch =
             SwitchSetValue(SwitchSetValue(@, 0, TRUE), 1, FALSE)]
    ELSE [o EXCEPT !.m_lodSwitch =
             SwitchSetValue(SwitchSetValue(@, 0, FALSE), 1, TRUE)]

\* Object3D::updateLOD.  The eye stands on the X axis, as every modelled
\* object does, so the distance is the difference of the X coordinates.
UpdateLOD(o, eyePosition) ==
    IF ~o.m_autoLOD
    THEN o
    ELSE LET objectPos == o.m_earthTransform.trans
             distance == Abs(eyePosition - objectPos)
         IN IF distance < o.m_nearDistance
            THEN [o EXCEPT !.m_lodSwitch =
                     SwitchSetValue(SwitchSetValue(@, 0, TRUE), 1, FALSE)]
            ELSE [o EXCEPT !.m_lodSwitch =
                     SwitchSetValue(SwitchSetValue(@, 0, FALSE), 1, TRUE)]

\* Object3D::forceLODLevel
ForceLODLevel(o, level) ==
    IF level = 0
    THEN [o EXCEPT !.m_lodSwitch =
             SwitchSetValue(SwitchSetValue(@, 0, TRUE), 1, FALSE)]
    ELSE IF level = 1
    THEN [o EXCEPT !.m_lodSwitch =
             SwitchSetValue(SwitchSetValue(@, 0, FALSE), 1, TRUE)]
    ELSE o

\* Object3D::setAutoLOD
SetAutoLOD(o, enabled) == [o EXCEPT !.m_autoLOD = enabled]

\* the model subgraph (position 0 of the switch) is drawn
FullShown(o) == o.m_lodSwitch.values[1]

\* the billboard (position 1 of the switch) is drawn
ProxyShown(o) ==
    /\ o.m_lodSwitch.numChildren >= 2
    /\ o.m_lodSwitch.values[2]

\* ------------------------------------------------------ geometry generators
\* Radius and length of a generator are in hundredths of a unit, angles in
\* whole degrees, a colour is an index into a palette.  A generator's record
\* holds its members, `param` (the tessellation parameter its geometry was
\* last built with: the azimuth step of a sensor volume, m_layers of a track
\* line) and `geometry`, what rebuildGeometry last put into the osg::Geometry.

\* static_cast<int> of a quotient of doubles: truncation toward zero
TruncDiv(a, b) == IF a >= 0 THEN a \div b ELSE 0 - ((0 - a) \div b)

\* for (x = from; x <= to; x += step) with a positive step: the number of
\* passes, one for every k >= 0 with from + k * step <= to
LoopPasses(from, to, step) ==
    Cardinality({k \in 0..(to - from) : from + k * step <= to})

\* Tessellation parameter SensorVolume::rebuildGeometry picks for a tier.
SensorStepForLevel(level) ==
    CASE level = 0 -> SENSOR_AZI_STEP_HIGH
      [] level = 1 -> SENSOR_AZI_STEP_MID
      [] OTHER -> SENSOR_AZI_STEP_LOW

SensorEleStepForLevel(level) ==
    CASE level = 0 -> SENSOR_ELE_STEP_HIGH
      [] level = 1 -> SENSOR_ELE_STEP_MID
      [] OTHER -> SENSOR_ELE_STEP_LOW

\* SensorVolume::createVertices: one vertex per (azimuth, elevation) sample;
\* the vertex array is kept as its size
SensorCreateVertices(g, azimuthStep, elevationStep) ==
    LoopPasses(g.m_azimuthStart, g.m_azimuthEnd, azimuthStep)
        * LoopPasses(g.m_elevationStart, g.m_elevationEnd, elevationStep)

\* the index loops of SensorVolume::rebuildGeometry: for i < numAziSteps - 1,
\* for j < numEleSteps - 1, six indices are pushed; the k-th index pushed
\* belongs to pass (k - 1) \div 6 of the inner body
SensorIndices(numAziSteps, numEleSteps) ==
    LET outer == IF numAziSteps - 1 > 0 THEN numAziSteps - 1 ELSE 0
        inner == IF numEleSteps - 1 > 0 THEN numEleSteps - 1 ELSE 0
        pushed(i, j) ==
            LET idx0 == i * numEleSteps + j
                idx1 == idx0 + 1
                idx2 == (i + 1) * numEleSteps + j
                idx3 == idx2 + 1
            IN <<idx0, idx1, idx2, idx1, idx3, idx2>>
    IN [k \in 1..(6 * outer * inner) |->
          pushed(((k - 1) \div 6) \div inner, ((k - 1) \div 6) % inner)[((k - 1) % 6) + 1]]

\* SensorVolume::rebuildGeometry with the step counts rounded up
SensorRebuildGeometryRoundedUp(g) ==
    LET azimuthStep == SensorStepForLevel(g.m_currentLodLevel)
        elevationStep == SensorEleStepForLevel(g.m_currentLodLevel)
        numAziSteps ==
            TruncDiv(g.m_azimuthEnd - g.m_azimuthStart + azimuthStep - 1, azimuthStep) + 1
        numEleSteps ==
            TruncDiv(g.m_elevationEnd - g.m_elevationStart + elevationStep - 1, elevationStep) + 1
    IN [g EXCEPT !.param = azimuthStep,
                 !.geometry = [vertices |-> SensorCreateVertices(g, azimuthStep, elevationStep),
                               indices |-> SensorIndices(numAziSteps, numEleSteps),
                               radius |-> g.m_radius,
                               color |-> g.m_color]]

\* SensorVolume::rebuildGeometry
SensorRebuildGeometry(g) ==
    LET azimuthStep == SensorStepForLevel(g.m_currentLodLevel)
        elevationStep == SensorEleStepForLevel(g.m_currentLodLevel)
        numAziSteps == TruncDiv(g.m_azimuthEnd - g.m_azimuthStart, azimuthStep) + 1
        numEleSteps == TruncDiv(g.m_elevationEnd - g.m_elevationStart, elevationStep) + 1
    IN [g EXCEPT !.param = azimuthStep,
                 !.geometry = [vertices |-> SensorCreateVertices(g, azimuthStep, elevationStep),
                               indices |-> SensorIndices(numAziSteps, numEleSteps),
                               radius |-> g.m_radius,
                               color |-> g.m_color]]

\* SensorVolume::SensorVolume: tier 1, the step arguments are not used,
\* geometry built once
SensorVolume(radius, color, azimuthStart, azimuthEnd, elevationStart, elevationEnd) ==
    SensorRebuildGeometry(
        [kind |-> "sensor", m_radius |-> radius, m_color |-> color,
         m_azimuthStart |-> azimuthStart, m_azimuthEnd |-> azimuthEnd,
         m_elevationStart |-> elevationStart, m_elevationEnd |-> elevationEnd,
         m_currentLodLevel |-> 1, m_visible |-> TRUE,
         param |-> 0, geometry |-> << >>])

Clamp02(level) == IF level < 0 THEN 0 ELSE IF level > 2 THEN 2 ELSE level

\* SensorVolume::setLodLevel without the clamp
SensorSetLodLevelUnclamped(g, level) ==
    IF g.m_currentLodLevel # level
    THEN SensorRebuildGeometry([g EXCEPT !.m_currentLodLevel = level])
    ELSE g

\* SensorVolume::setLodLevel
SensorSetLodLevel(g, level) ==
    LET l == Clamp02(level) IN
    IF g.m_currentLodLevel # l
    THEN SensorRebuildGeometry([g EXCEPT !.m_currentLodLevel = l])
    ELSE g

\* SensorVolume::setRadius
SensorSetRadius(g, radius) ==
    IF Abs(g.m_radius - radius) > SENSOR_RADIUS_GUARD
    THEN SensorRebuildGeometry([g EXCEPT !.m_radius = radius])
    ELSE g

\* SensorVolume::setColor
SensorSetColor(g, color) ==
    SensorRebuildGeometry([g EXCEPT !.m_color = color])

\* SensorVolume::setAngles
SensorSetAngles(g, azimuthStart, azimuthEnd, elevationStart, elevationEnd) ==
    SensorRebuildGeometry(
        [g EXCEPT !.m_azimuthStart = azimuthStart, !.m_azimuthEnd = azimuthEnd,
                  !.m_elevationStart = elevationStart,
                  !.m_elevationEnd = elevationEnd])

\* TrackLine::createVertices with rings 0..layers - 1 only
TrackCreateVerticesExclusive(g, layers) ==
    LoopPasses(0, layers - 1, 1) * LoopPasses(0, TRACK_SEGMENTS, 1)

\* TrackLine::createVertices: rings 0..layers of segments + 1 vertices each;
\* the vertex array is kept as its size
TrackCreateVertices(g, layers) ==
    LoopPasses(0, layers, 1) * LoopPasses(0, TRACK_SEGMENTS, 1)

\* TrackLine::rebuildGeometry: one GL_TRIANGLE_STRIP osg::DrawArrays from 0
\* over vertices->size() vertices
TrackRebuildGeometry(g) ==
    LET vertices == TrackCreateVertices(g, g.param)
    IN [g EXCEPT !.geometry = [vertices |-> vertices,
                               primitives |-> <<[first |-> 0, count |-> vertices]>>,
                               length |-> g.m_length,
                               radius |-> g.m_radius,
                               color |-> g.m_color]]

\* TrackLine::TrackLine: tier 1, geometry built with the given layer count
TrackLine(length, radius, color, layers) ==
    TrackRebuildGeometry(
        [kind |-> "track", m_length |-> length, m_radius |-> radius,
         m_color |-> color, m_currentLodLevel |-> 1, m_visible |-> TRUE,
         param |-> layers, geometry |-> << >>])

TrackLayersForLevel(level) ==
    CASE level = 0 -> TRACKLINE_LAYERS_HIGH
      [] level = 1 -> TRACKLINE_LAYERS_MID
      [] OTHER -> TRACKLINE_LAYERS_LOW

\* TrackLine::setLodLevel
TrackSetLodLevel(g, level) ==
    LET l == Clamp02(level) IN
    IF g.m_currentLodLevel # l
    THEN LET newLayers == TrackLayersForLevel(l)
             g1 == [g EXCEPT !.m_currentLodLevel = l]
         IN IF newLayers # g1.param
            THEN TrackRebuildGeometry([g1 EXCEPT !.param = newLayers])
            ELSE g1
    ELSE g

\* TrackLine::setLength
TrackSetLength(g, length) ==
    IF Abs(g.m_length - length) > TRACK_LENGTH_GUARD
    THEN TrackRebuildGeometry([g EXCEPT !.m_length = length])
    ELSE g

\* TrackLine::setRadius
TrackSetRadius(g, radius) ==
    IF Abs(g.m_radius - radius) > TRACK_RADIUS_GUARD
    THEN TrackRebuildGeometry([g EXCEPT !.m_radius = radius])
    ELSE g

\* TrackLine::setColor
TrackSetColor(g, color) ==
    TrackRebuildGeometry([g EXCEPT !.m_color = color])

\* TrackLine::setLayers
TrackSetLayers(g, layers) ==
    IF layers # g.param
    THEN TrackRebuildGeometry([g EXCEPT !.param = layers])
    ELSE g

\* ShipModel::ShipModel(lon, lat, alt, scale, path)
ShipModel(lon, lat, alt, scale) ==
    SetAttitude(SetScale(SetPosition(Object3D, lon, lat, alt), scale), 0, 0, 0)

\* MissileModel::MissileModel(lon, lat, alt, heading, pitch, roll, scale, path)
MissileModel(lon, lat, alt, heading, pitch, roll, scale) ==
    SetScale(SetAttitude(SetPosition(Object3D, lon, lat, alt), heading, pitch, roll), scale)

\* ShipModel::updateSensorLod
UpdateSensorLod(o, lodLevel) ==
    [o EXCEPT !.gens = [i \in DOMAIN o.gens |-> SensorSetLodLevel(o.gens[i], lodLevel)]]

\* MissileModel::updateTrackLineLod
UpdateTrackLineLod(o, lodLevel) ==
    [o EXCEPT !.gens = [i \in DOMAIN o.gens |-> TrackSetLodLevel(o.gens[i], lodLevel)]]

\* --------------------------------------------------- PerformanceTestManager
\* The sphere updateLOD measures the camera altitude from, metres.
EARTH_RADIUS == 6371000
\* The altitude from which unified mode shows the billboards, metres.
UNIFIED_ALTITUDE == 500000

\* PerformanceTestManager::PerformanceTestManager: no entity, unified mode
\* (the member's default); m_viewer is kept as whether it and its camera
\* are there.
PerformanceTestManager(viewer) ==
    [m_viewer |-> viewer, m_entities |-> << >>, m_unifiedLODMode |-> TRUE]

\* One EntityPair of createTestEntities.  The grid of longitudes and
\* latitudes is collapsed to the point the model's placement covers,
\* longitude = latitude = 0; altitudes, attitude and scales are the code's.
EntityPair ==
    [ship |-> ShipModel(0, 0, 0 - 90, SCALE_ONE),
     missile |-> MissileModel(0, 0, 100000, 450000000, 900000000, 0, 50 * SCALE_ONE)]

\* PerformanceTestManager::setGlobalLODMode (every object has its
\* modelObject(), so no entity is skipped by the loops over m_entities)
SetGlobalLODMode(p, unifiedMode) ==
    [p EXCEPT !.m_unifiedLODMode = unifiedMode,
              !.m_entities =
                  [i \in DOMAIN p.m_entities |->
                      [ship |-> SetAutoLOD(p.m_entities[i].ship, ~unifiedMode),
                       missile |-> SetAutoLOD(p.m_entities[i].missile, ~unifiedMode)]]]

\* PerformanceTestManager::setGlobalLODLevel
SetGlobalLODLevel(p, level) ==
    [p EXCEPT !.m_entities =
        [i \in DOMAIN p.m_entities |->
            [ship |-> ForceLODLevel(p.m_entities[i].ship, level),
             missile |-> ForceLODLevel(p.m_entities[i].missile, level)]]]

\* PerformanceTestManager::createTestEntities without the closing
\* setGlobalLODMode call
CreateTestEntitiesAsConstructed(p, count) ==
    [p EXCEPT !.m_entities = @ \o [i \in 1..count |-> EntityPair]]

\* PerformanceTestManager::createTestEntities
CreateTestEntities(p, count) ==
    SetGlobalLODMode(
        [p EXCEPT !.m_entities = @ \o [i \in 1..count |-> EntityPair]],
        p.m_unifiedLODMode)

\* PerformanceTestManager::setBillboardImages; each image file loads or not
SetBillboardImages(p, shipLoaded, missileLoaded) ==
    [p EXCEPT !.m_entities =
        [i \in DOMAIN p.m_entities |->
            [ship |-> SetBillboardImage(p.m_entities[i].ship, shipLoaded),
             missile |-> SetBillboardImage(p.m_entities[i].missile, missileLoaded)]]]

\* PerformanceTestManager::updateAnimation; the sine and cosine offsets are
\* taken as one offset for the ships and one for the missiles
UpdateAnimation(p, shipOffset, missileOffset) ==
    LET Ship(o) ==
            UpdateIfDirty(SetPosition(o, o.m_longitude + shipOffset,
                                      o.m_latitude, o.m_altitude))
        Missile(o) ==
            UpdateIfDirty(SetPosition(o, o.m_longitude,
                                      o.m_latitude + missileOffset, o.m_altitude))
    IN [p EXCEPT !.m_entities =
           [i \in DOMAIN p.m_entities |->
               [ship |-> Ship(p.m_entities[i].ship),
                missile |-> Missile(p.m_entities[i].missile)]]]

\* the individual-mode branch of PerformanceTestManager::updateLOD
UpdateLODIndividually(p, eyePos) ==
    [p EXCEPT !.m_entities =
        [i \in DOMAIN p.m_entities |->
            [ship |-> UpdateLOD(p.m_entities[i].ship, eyePos),
             missile |-> UpdateLOD(p.m_entities[i].missile, eyePos)]]]

\* PerformanceTestManager::updateLOD with <= in place of < at 500 km
PtmUpdateLODInclusive(p, eyePos) ==
    IF ~p.m_viewer
    THEN p
    ELSE IF ~p.m_unifiedLODMode
    THEN UpdateLODIndividually(p, eyePos)
    ELSE LET cameraAltitude == Abs(eyePos) - EARTH_RADIUS
             globalLevel == IF cameraAltitude <= UNIFIED_ALTITUDE THEN 0 ELSE 1
         IN SetGlobalLODLevel(p, globalLevel)

\* PerformanceTestManager::updateLOD with the camera's eye at eyePos
PtmUpdateLOD(p, eyePos) ==
    IF ~p.m_viewer
    THEN p
    ELSE IF ~p.m_unifiedLODMode
    THEN UpdateLODIndividually(p, eyePos)
    ELSE LET cameraAltitude == Abs(eyePos) - EARTH_RADIUS
             globalLevel == IF cameraAltitude < UNIFIED_ALTITUDE THEN 0 ELSE 1
         IN SetGlobalLODLevel(p, globalLevel)

\* ------------------------------------------------------------ EntityManager
\* EntityManager::calculateDistance
CalculateDistance(e, cam) ==
    IF ~cam.valid
    THEN 0
    ELSE Abs(ConvertLatLongHeightToXYZ(e.object.m_latitude, e.object.m_longitude,
                                       e.object.m_altitude) - cam.eye)

\* tier selection with <= in place of < at each threshold
LodLevelForInclusive(distance) ==
    IF distance <= DISTANCE_NEAR THEN 0
    ELSE IF distance <= DISTANCE_MID THEN 1
    ELSE IF distance <= DISTANCE_FAR THEN 2
    ELSE 3

\* tier selection with the results of the MID and FAR branches exchanged
LodLevelForSwapped(distance) ==
    IF distance < DISTANCE_NEAR THEN 0
    ELSE IF distance < DISTANCE_MID THEN 2
    ELSE IF distance < DISTANCE_FAR THEN 1
    ELSE 3

\* the tier chosen by EntityManager::updateEntityLod for a distance
LodLevelFor(distance) ==
    IF distance < DISTANCE_NEAR THEN 0
    ELSE IF distance < DISTANCE_MID THEN 1
    ELSE IF distance < DISTANCE_FAR THEN 2
    ELSE 3

\* EntityManager::updateEntityLod
UpdateEntityLod(e, cam) ==
    LET distance == CalculateDistance(e, cam) IN
    [e EXCEPT !.lastDistance = distance, !.lodLevel = LodLevelFor(distance)]

\* shouldUpdate whose default branch throttles tier 3 at the interval of
\* tier 2 instead of returning false
ShouldUpdateThrottlesCulled(e, now) ==
    CASE e.lodLevel = 0 -> (now - e.lastUpdateTime) >= UPDATE_INTERVAL_NEAR
      [] e.lodLevel = 1 -> (now - e.lastUpdateTime) >= UPDATE_INTERVAL_MID
      [] OTHER -> (now - e.lastUpdateTime) >= UPDATE_INTERVAL_FAR

\* shouldUpdate with > in place of >=
ShouldUpdateStrict(e, now) ==
    CASE e.lodLevel = 0 -> (now - e.lastUpdateTime) > UPDATE_INTERVAL_NEAR
      [] e.lodLevel = 1 -> (now - e.lastUpdateTime) > UPDATE_INTERVAL_MID
      [] e.lodLevel = 2 -> (now - e.lastUpdateTime) > UPDATE_INTERVAL_FAR
      [] OTHER -> FALSE

\* EntityManager::shouldUpdate, reading the clock as `now`
ShouldUpdate(e, now) ==
    CASE e.lodLevel = 0 -> (now - e.lastUpdateTime) >= UPDATE_INTERVAL_NEAR
      [] e.lodLevel = 1 -> (now - e.lastUpdateTime) >= UPDATE_INTERVAL_MID
      [] e.lodLevel = 2 -> (now - e.lastUpdateTime) >= UPDATE_INTERVAL_FAR
      [] OTHER -> FALSE

\* the visibility step that, on the way back into range, sets the entity's
\* flag without calling setVisible(true) on the object
CullOrShowFlagOnly(e) ==
    IF e.lastDistance > DISTANCE_FAR
    THEN IF e.visible
         THEN [e EXCEPT !.object = SetVisible(e.object, FALSE), !.visible = FALSE]
         ELSE e
    ELSE IF ~e.visible
         THEN [e EXCEPT !.visible = TRUE]
         ELSE e

\* the culling branch of updateAll's loop body
CullOrShow(e) ==
    IF e.lastDistance > DISTANCE_FAR
    THEN IF e.visible
         THEN [e EXCEPT !.object = SetVisible(e.object, FALSE), !.visible = FALSE]
         ELSE e
    ELSE IF ~e.visible
         THEN [e EXCEPT !.object = SetVisible(e.object, TRUE), !.visible = TRUE]
         ELSE e

\* the flush branch without the propagation of the tier to the generators
FlushEntityWithoutGenerators(e, now) ==
    [e EXCEPT !.object = UpdateIfDirty(e.object), !.lastUpdateTime = now]

\* the flush branch of updateAll's loop body
FlushEntity(e, now) ==
    LET o1 == UpdateIfDirty(e.object)
        o2 == IF e.type = "SHIP" THEN UpdateSensorLod(o1, e.lodLevel)
              ELSE IF e.type = "MISSILE" THEN UpdateTrackLineLod(o1, e.lodLevel)
              ELSE o1
    IN [e EXCEPT !.object = o2, !.lastUpdateTime = now]

\* One iteration without the `continue` of the culling branch, every entity
\* throttled at the interval of tier 2
TickEntityCulledFallsThrough(e, cam, now, now2) ==
    LET e1 == UpdateEntityLod(e, cam)
        e2 == CullOrShow(e1)
    IN IF (now2 - e2.lastUpdateTime) >= UPDATE_INTERVAL_FAR
       THEN [e |-> FlushEntity(e2, now), flushed |-> TRUE]
       ELSE [e |-> e2, flushed |-> FALSE]

\* One iteration with the throttle check ahead of the distance and tier
\* computation
TickEntityThrottleFirst(e, cam, now, now2) ==
    IF ~ShouldUpdate(e, now2)
    THEN [e |-> e, flushed |-> FALSE]
    ELSE LET e1 == UpdateEntityLod(e, cam)
             e2 == CullOrShow(e1)
         IN IF e1.lastDistance > DISTANCE_FAR
            THEN [e |-> e2, flushed |-> FALSE]
            ELSE [e |-> FlushEntity(e2, now), flushed |-> TRUE]

\* One iteration of updateAll's loop: `now` is the time read at the start of
\* the tick, `now2` the time shouldUpdate reads for this entity.
TickEntity(e, cam, now, now2) ==
    LET e1 == UpdateEntityLod(e, cam)
        e2 == CullOrShow(e1)
    IN IF e1.lastDistance > DISTANCE_FAR
       THEN [e |-> e2, flushed |-> FALSE]
       ELSE IF ShouldUpdate(e2, now2)
            THEN [e |-> FlushEntity(e2, now), flushed |-> TRUE]
            ELSE [e |-> e2, flushed |-> FALSE]

\* the ManagedEntity of an object whose constructor leaves the three dirty
\* flags clear
NewManagedEntityClean(entityId, type, now) ==
    [entityId |-> entityId,
     type |-> type,
     object |-> [(IF type = "SHIP" THEN ShipModel(0, 0, 0, SCALE_ONE)
                  ELSE MissileModel(0, 0, 0, 0, 0, 0, SCALE_ONE))
                 EXCEPT !.m_positionDirty = FALSE, !.m_attitudeDirty = FALSE,
                        !.m_scaleDirty = FALSE],
     lodLevel |-> 1,
     lastDistance |-> 0,
     lastUpdateTime |-> now,
     visible |-> TRUE]

\* the ManagedEntity createEntity inserts
NewManagedEntity(entityId, type, now) ==
    [entityId |-> entityId,
     type |-> type,
     object |-> IF type = "SHIP" THEN ShipModel(0, 0, 0, SCALE_ONE)
                ELSE MissileModel(0, 0, 0, 0, 0, 0, SCALE_ONE),
     lodLevel |-> 1,
     lastDistance |-> 0,
     lastUpdateTime |-> now,
     visible |-> TRUE]

\* the body of updateEntityState for a registered id
ApplyState(e, state, now) ==
    LET o1 == SetPosition(e.object, state.lon, state.lat, state.alt)
        o2 == SetAttitude(o1, state.heading, state.pitch, state.roll)
        o3 == UpdateIfDirty(o2)
    IN [e EXCEPT !.object = o3, !.lastUpdateTime = now]

GetEntityCount == Cardinality(DOMAIN m_entities)

GetVisibleEntityCount == Cardinality({id \in DOMAIN m_entities : m_entities[id].visible})

\* the record of an operation that flushed nothing: its name, its id argument
\* (0 if none), its result (TRUE for a void operation that took effect), the
\* clock it read, the ids it flushed, the ids a tick visited a second time
NoOp(op, id, ret) ==
    [op |-> op, id |-> id, ret |-> ret, now |-> clock, flushed |-> {},
     reticked |-> {}, args |-> << >>]

\* ---------------------------------------------------------------- actions
Init ==
    /\ clock = 0
    /\ m_camera \in [valid : BOOLEAN, eye : {WGS_84_RADIUS_EQUATOR}]
    /\ m_entities = << >>
    /\ m_frameCount = 0
    /\ last = NoOp("construct", 0, TRUE)
    /\ h = [live |-> {}, lastFlush |-> [id \in AllIds |-> None], ticked |-> {}]
    /\ pc = "free"
    /\ obj = Object3D
    /\ gen = TrackLine(100000000, 100000, 1, TRACKLINE_LAYERS_MID)
    /\ ptm = PerformanceTestManager(TRUE)

\* time passes between two operations
AdvanceClock(d) ==
    /\ clock + d <= MaxTime
    /\ clock' = clock + d
    /\ last' = [NoOp("advance", 0, TRUE) EXCEPT !.now = clock + d]
    /\ UNCHANGED <<m_camera, m_entities, m_frameCount, h>>

\* createEntity without the contains() test: QMap::insert replaces the value
CreateEntityOverwrite(entityId, type) ==
    /\ m_entities' = [id \in DOMAIN m_entities \cup {entityId} |->
                         IF id = entityId
                         THEN NewManagedEntity(entityId, type, clock)
                         ELSE m_entities[id]]
    /\ last' = NoOp("createEntity", entityId, TRUE)
    /\ h' = [h EXCEPT !.live = @ \cup {entityId},
                      !.lastFlush[entityId] = None,
                      !.ticked = @ \ {entityId}]
    /\ UNCHANGED <<clock, m_camera, m_frameCount>>

\* EntityManager::createEntity
CreateEntity(entityId, type) ==
    /\ IF entityId \in DOMAIN m_entities
       THEN /\ last' = NoOp("createEntity", entityId, FALSE)
            /\ UNCHANGED <<m_entities, h>>
       ELSE /\ m_entities' = [id \in DOMAIN m_entities \cup {entityId} |->
                                 IF id = entityId
                                 THEN NewManagedEntity(entityId, type, clock)
                                 ELSE m_entities[id]]
            /\ last' = NoOp("createEntity", entityId, TRUE)
            /\ h' = [h EXCEPT !.live = @ \cup {entityId},
                              !.lastFlush[entityId] = None,
                              !.ticked = @ \ {entityId}]
    /\ UNCHANGED <<clock, m_camera, m_frameCount>>

\* the EntityState records a producer submits
States(ids, alts, headings) ==
    [entityId : ids, lon : {0}, lat : {0}, alt : alts,
     heading : headings, pitch : {0}, roll : {0}]

\* updateEntityState that registers an unknown id as a ship before applying
UpdateEntityStateRegisters(state) ==
    LET ents == [id \in DOMAIN m_entities \cup {state.entityId} |->
                    IF id \in DOMAIN m_entities THEN m_entities[id]
                    ELSE NewManagedEntity(id, "SHIP", clock)]
    IN /\ m_entities' = [ents EXCEPT ![state.entityId] = ApplyState(@, state, clock)]
       /\ last' = [NoOp("updateEntityState", state.entityId,
                        state.entityId \in DOMAIN m_entities)
                       EXCEPT !.flushed = {state.entityId}]
       /\ h' = [h EXCEPT !.lastFlush[state.entityId] = clock]
       /\ UNCHANGED <<clock, m_camera, m_frameCount>>

\* the states a producer batches: a near position with heading 0 or a
\* position beyond FAR with heading 90 degrees, for either id
BatchStates ==
    {st \in States(Ids, AltsWithinNear \cup AltsBeyondFar, Headings) :
        (st.heading = 0) <=> (st.alt \in AltsWithinNear)}

\* EntityManager::updateEntityState
UpdateEntityState(state) ==
    /\ IF state.entityId \notin DOMAIN m_entities
       THEN /\ last' = NoOp("updateEntityState", state.entityId, FALSE)
            /\ UNCHANGED <<m_entities, h>>
       ELSE /\ m_entities' = [m_entities EXCEPT ![state.entityId] =
                                 ApplyState(@, state, clock)]
            /\ last' = [NoOp("updateEntityState", state.entityId, TRUE)
                            EXCEPT !.flushed = {state.entityId}]
            /\ h' = [h EXCEPT !.lastFlush[state.entityId] = clock]
    /\ UNCHANGED <<clock, m_camera, m_frameCount>>

\* the batch loop as a transaction: it stops at the first unknown id
RECURSIVE ApplyStatesUntilUnknown(_, _, _, _)
ApplyStatesUntilUnknown(ents, states, i, now) ==
    IF i > Len(states) \/ states[i].entityId \notin DOMAIN ents
    THEN ents
    ELSE ApplyStatesUntilUnknown(
             [ents EXCEPT ![states[i].entityId] = ApplyState(@, states[i], now)],
             states, i + 1, now)

\* updateEntityStates' loop over states[i..], at one clock reading
RECURSIVE ApplyStates(_, _, _, _)
ApplyStates(ents, states, i, now) ==
    IF i > Len(states)
    THEN ents
    ELSE LET st == states[i] IN
         ApplyStates(IF st.entityId \in DOMAIN ents
                     THEN [ents EXCEPT ![st.entityId] = ApplyState(@, st, now)]
                     ELSE ents,
                     states, i + 1, now)

\* EntityManager::updateEntityStates
UpdateEntityStates(states) ==
    LET known == {states[i].entityId : i \in DOMAIN states} \cap DOMAIN m_entities IN
    /\ m_entities' = ApplyStates(m_entities, states, 1, clock)
    /\ last' = [NoOp("updateEntityStates", 0, TRUE) EXCEPT !.flushed = known,
                                                            !.args = states]
    /\ h' = [h EXCEPT !.lastFlush = [id \in AllIds |-> IF id \in known THEN clock
                                                    ELSE h.lastFlush[id]]]
    /\ UNCHANGED <<clock, m_camera, m_frameCount>>

\* removeEntity that detaches the scene node but forgets m_entities.remove
RemoveEntityKeepsEntry(entityId) ==
    /\ m_entities' = m_entities
    /\ last' = NoOp("removeEntity", entityId, entityId \in DOMAIN m_entities)
    /\ h' = [h EXCEPT !.live = @ \ {entityId}]
    /\ UNCHANGED <<clock, m_camera, m_frameCount>>

\* removeEntity that empties the whole map when the id is present
RemoveEntityDropsAll(entityId) ==
    /\ m_entities' = IF entityId \in DOMAIN m_entities THEN << >> ELSE m_entities
    /\ last' = NoOp("removeEntity", entityId, entityId \in DOMAIN m_entities)
    /\ h' = [h EXCEPT !.live = @ \ {entityId}]
    /\ UNCHANGED <<clock, m_camera, m_frameCount>>

\* EntityManager::removeEntity
RemoveEntity(entityId) ==
    /\ m_entities' = [id \in DOMAIN m_entities \ {entityId} |-> m_entities[id]]
    /\ last' = NoOp("removeEntity", entityId, entityId \in DOMAIN m_entities)
    /\ h' = [h EXCEPT !.live = @ \ {entityId}]
    /\ UNCHANGED <<clock, m_camera, m_frameCount>>

\* EntityManager::clearAllEntities
ClearAllEntities ==
    /\ m_entities' = << >>
    /\ last' = NoOp("clearAllEntities", 0, TRUE)
    /\ h' = [h EXCEPT !.live = {}]
    /\ UNCHANGED <<clock, m_camera, m_frameCount>>

\* updateAll without the test of the camera
UpdateAllWithoutCamera(d, cut) ==
    LET now == clock
        now2(id) == IF d > 0 /\ id >= cut THEN now + d ELSE now
        res == [id \in DOMAIN m_entities |->
                   TickEntity(m_entities[id], m_camera, now, now2(id))]
        fl == {id \in DOMAIN m_entities : res[id].flushed}
    IN /\ m_frameCount < MaxFrames
       /\ clock + d <= MaxTime
       /\ (d = 0 /\ cut = 0) \/ (d > 0 /\ cut \in DOMAIN m_entities)
       /\ m_entities' = [id \in DOMAIN m_entities |-> res[id].e]
       /\ m_frameCount' = m_frameCount + 1
       /\ clock' = clock + d
       /\ last' = [op |-> "updateAll", id |-> 0, ret |-> TRUE,
                   now |-> now, flushed |-> fl,
                   reticked |-> h.ticked \cap DOMAIN m_entities,
                   args |-> << >>]
       /\ h' = [h EXCEPT !.lastFlush = [id \in AllIds |-> IF id \in fl THEN now2(id)
                                                       ELSE h.lastFlush[id]],
                         !.ticked = @ \cup DOMAIN m_entities]
       /\ UNCHANGED m_camera

\* EntityManager::updateAll.  The tick reads the clock once at its start
\* (now); shouldUpdate reads it again for each entity.  The clock may move
\* by d while the loop runs: entities with key >= cut see now + d.
UpdateAll(d, cut) ==
    IF ~m_camera.valid
    THEN /\ d = 0 /\ cut = 0
         /\ last' = NoOp("updateAll", 0, FALSE)
         /\ UNCHANGED <<clock, m_camera, m_entities, m_frameCount, h>>
    ELSE LET now == clock
             now2(id) == IF d > 0 /\ id >= cut THEN now + d ELSE now
             res == [id \in DOMAIN m_entities |->
                        TickEntity(m_entities[id], m_camera, now, now2(id))]
             fl == {id \in DOMAIN m_entities : res[id].flushed}
         IN /\ m_frameCount < MaxFrames
            /\ clock + d <= MaxTime
            /\ (d = 0 /\ cut = 0) \/ (d > 0 /\ cut \in DOMAIN m_entities)
            /\ m_entities' = [id \in DOMAIN m_entities |-> res[id].e]
            /\ m_frameCount' = m_frameCount + 1
            /\ clock' = clock + d
            /\ last' = [op |-> "updateAll", id |-> 0, ret |-> TRUE,
                        now |-> now, flushed |-> fl,
                        reticked |-> h.ticked \cap DOMAIN m_entities,
                        args |-> << >>]
            /\ h' = [h EXCEPT !.lastFlush = [id \in AllIds |-> IF id \in fl THEN now2(id)
                                                            ELSE h.lastFlush[id]],
                              !.ticked = @ \cup DOMAIN m_entities]
            /\ UNCHANGED m_camera

\* EntityManager::startRendering: starts the 20 Hz timer that calls
\* updateAll and restarts the frame count
StartRendering ==
    /\ m_frameCount' = 0
    /\ last' = NoOp("startRendering", 0, TRUE)
    /\ UNCHANGED <<clock, m_camera, m_entities, h>>

\* ShipModel::addFixedWave on the ship of a registered entity
AddFixedWave(entityId) ==
    /\ entityId \in DOMAIN m_entities
    /\ m_entities[entityId].type = "SHIP"
    /\ Len(m_entities[entityId].object.gens) < MaxGens
    /\ m_entities' = [m_entities EXCEPT ![entityId].object.gens =
                         Append(@, SensorVolume(30000000, 0, 0, 40, 10, 30))]
    /\ last' = NoOp("addFixedWave", entityId, TRUE)
    /\ UNCHANGED <<clock, m_camera, m_frameCount, h>>

\* MissileModel::addRadarTrackLine on the missile of a registered entity
AddRadarTrackLine(entityId, layers) ==
    /\ entityId \in DOMAIN m_entities
    /\ m_entities[entityId].type = "MISSILE"
    /\ Len(m_entities[entityId].object.gens) < MaxGens
    /\ m_entities' = [m_entities EXCEPT ![entityId].object.gens =
                         Append(@, TrackLine(100000000, 100000, 1, layers))]
    /\ last' = NoOp("addRadarTrackLine", entityId, TRUE)
    /\ UNCHANGED <<clock, m_camera, m_frameCount, h>>

\* ------------------------------------------------- calls on the lone object
\* a call on obj that leaves it as o
ObjectCall(op, args, o) ==
    /\ obj' = o
    /\ last' = [NoOp(op, 0, TRUE) EXCEPT !.args = args]
    /\ UNCHANGED <<clock, m_camera, m_entities, m_frameCount, h, pc, gen, ptm>>

CallSetPosition(lon, lat, alt) ==
    ObjectCall("setPosition", <<lon, lat, alt>>, SetPosition(obj, lon, lat, alt))

CallSetAttitude(heading, pitch, roll) ==
    ObjectCall("setAttitude", <<heading, pitch, roll>>,
               SetAttitude(obj, heading, pitch, roll))

CallSetScale(scale) ==
    ObjectCall("setScale", <<scale>>, SetScale(obj, scale))

CallUpdateIfDirty ==
    ObjectCall("updateIfDirty", << >>, UpdateIfDirty(obj))

\* loaded: 1 when the image file could be read, 0 when not
CallSetBillboardImage(loaded) ==
    ObjectCall("setBillboardImage", <<loaded>>, SetBillboardImage(obj, loaded = 1))

CallSetLODDistances(nearDist) ==
    ObjectCall("setLODDistances", <<nearDist>>, SetLODDistances(obj, nearDist))

CallUpdateLOD(eyePosition) ==
    ObjectCall("updateLOD", <<eyePosition>>, UpdateLOD(obj, eyePosition))

CallForceLODLevel(level) ==
    ObjectCall("forceLODLevel", <<level>>, ForceLODLevel(obj, level))

\* visible: 1 for true, 0 for false
CallSetVisible(visible) ==
    ObjectCall("setVisible", <<visible>>, SetVisible(obj, visible = 1))

\* enabled: 1 for true, 0 for false
CallSetAutoLOD(enabled) ==
    ObjectCall("setAutoLOD", <<enabled>>, SetAutoLOD(obj, enabled = 1))

\* ---------------------------------------------- calls on the lone generator
\* a call on gen that leaves it as g
GeneratorCall(op, args, g) ==
    /\ gen' = g
    /\ last' = [NoOp(op, 0, TRUE) EXCEPT !.args = args]
    /\ UNCHANGED <<clock, m_camera, m_entities, m_frameCount, h, pc, obj, ptm>>

CallSensorSetLodLevel(level) ==
    /\ gen.kind = "sensor"
    /\ GeneratorCall("SensorVolume::setLodLevel", <<level>>, SensorSetLodLevel(gen, level))

CallSensorSetRadius(radius) ==
    /\ gen.kind = "sensor"
    /\ GeneratorCall("SensorVolume::setRadius", <<radius>>, SensorSetRadius(gen, radius))

CallSensorSetColor(color) ==
    /\ gen.kind = "sensor"
    /\ GeneratorCall("SensorVolume::setColor", <<color>>, SensorSetColor(gen, color))

CallSensorSetAngles(azimuthStart, azimuthEnd, elevationStart, elevationEnd) ==
    /\ gen.kind = "sensor"
    /\ GeneratorCall("SensorVolume::setAngles",
                     <<azimuthStart, azimuthEnd, elevationStart, elevationEnd>>,
                     SensorSetAngles(gen, azimuthStart, azimuthEnd,
                                     elevationStart, elevationEnd))

CallTrackSetLodLevel(level) ==
    /\ gen.kind = "track"
    /\ GeneratorCall("TrackLine::setLodLevel", <<level>>, TrackSetLodLevel(gen, level))

CallTrackSetLength(length) ==
    /\ gen.kind = "track"
    /\ GeneratorCall("TrackLine::setLength", <<length>>, TrackSetLength(gen, length))

CallTrackSetRadius(radius) ==
    /\ gen.kind = "track"
    /\ GeneratorCall("TrackLine::setRadius", <<radius>>, TrackSetRadius(gen, radius))

CallTrackSetColor(color) ==
    /\ gen.kind = "track"
    /\ GeneratorCall("TrackLine::setColor", <<color>>, TrackSetColor(gen, color))

CallTrackSetLayers(layers) ==
    /\ gen.kind = "track"
    /\ GeneratorCall("TrackLine::setLayers", <<layers>>, TrackSetLayers(gen, layers))

\* -------------------------------------- calls on the PerformanceTestManager
\* a call on ptm that leaves it as p
ManagerCall(op, args, p) ==
    /\ ptm' = p
    /\ last' = [NoOp(op, 0, TRUE) EXCEPT !.args = args]
    /\ UNCHANGED <<clock, m_camera, m_entities, m_frameCount, h, pc, obj, gen>>

\* construction; viewer: 1 when a viewer with a camera is handed over
NewPerformanceTestManager(viewer) ==
    /\ last.op = "construct"
    /\ ManagerCall("PerformanceTestManager", <<viewer>>,
                   PerformanceTestManager(viewer = 1))

CallCreateTestEntities(count) ==
    /\ Len(ptm.m_entities) + count <= MaxPairs
    /\ ManagerCall("createTestEntities", <<count>>, CreateTestEntities(ptm, count))

\* shipLoaded, missileLoaded: 1 when the image file loads
CallSetBillboardImages(shipLoaded, missileLoaded) ==
    ManagerCall("setBillboardImages", <<shipLoaded, missileLoaded>>,
                SetBillboardImages(ptm, shipLoaded = 1, missileLoaded = 1))

\* the offsets keep every longitude and latitude between 0 and one epsilon
CallUpdateAnimation(shipOffset, missileOffset) ==
    /\ \A i \in DOMAIN ptm.m_entities :
          /\ ptm.m_entities[i].ship.m_longitude + shipOffset \in 0..POSITION_EPSILON
          /\ ptm.m_entities[i].missile.m_latitude + missileOffset \in 0..POSITION_EPSILON
    /\ ManagerCall("updateAnimation", <<shipOffset, missileOffset>>,
                   UpdateAnimation(ptm, shipOffset, missileOffset))

CallPtmUpdateLOD(eyePos) ==
    ManagerCall("updateLOD", <<eyePos>>, PtmUpdateLOD(ptm, eyePos))

\* unifiedMode: 1 for true, 0 for false
CallSetGlobalLODMode(unifiedMode) ==
    ManagerCall("setGlobalLODMode", <<unifiedMode>>,
                SetGlobalLODMode(ptm, unifiedMode = 1))

CallSetGlobalLODLevel(level) ==
    ManagerCall("setGlobalLODLevel", <<level>>, SetGlobalLODLevel(ptm, level))

\* ------------------------------------------------------------ specifications
\* The registry: MaxId ids of both kinds, created at the point under the
\* camera and moved beyond FAR by single updates and by batches of MaxBatch
\* states, removed and re-created, with ticks UPDATE_INTERVAL_MID apart.
Next ==
    \/ AdvanceClock(UPDATE_INTERVAL_MID) /\ UNCHANGED <<pc, obj, gen, ptm>>
    \/ \E id \in Ids, t \in Types : CreateEntity(id, t) /\ UNCHANGED <<pc, obj, gen, ptm>>
    \/ \E st \in States(Ids, AltsBeyondFar, {0}) :
          UpdateEntityState(st) /\ UNCHANGED <<pc, obj, gen, ptm>>
    \/ \E sts \in [1..MaxBatch -> States(Ids, AltsBeyondFar, {0})] :
          UpdateEntityStates(sts) /\ UNCHANGED <<pc, obj, gen, ptm>>
    \/ \E id \in Ids : RemoveEntity(id) /\ UNCHANGED <<pc, obj, gen, ptm>>
    \/ ClearAllEntities /\ UNCHANGED <<pc, obj, gen, ptm>>
    \/ UpdateAll(0, 0) /\ UNCHANGED <<pc, obj, gen, ptm>>
    \/ StartRendering /\ UNCHANGED <<pc, obj, gen, ptm>>

Spec == Init /\ [][Next]_vars

\* Batches: id 1 is registered, removed and registered again, id 2 never
\* is, so a batch mixes a known and an unknown id or names one id twice.
NextBatch ==
    \/ AdvanceClock(UPDATE_INTERVAL_MID) /\ UNCHANGED <<pc, obj, gen, ptm>>
    \/ CreateEntity(1, "SHIP") /\ UNCHANGED <<pc, obj, gen, ptm>>
    \/ RemoveEntity(1) /\ UNCHANGED <<pc, obj, gen, ptm>>
    \/ \E st \in BatchStates : UpdateEntityState(st) /\ UNCHANGED <<pc, obj, gen, ptm>>
    \/ \E sts \in [1..MaxBatch -> BatchStates] : UpdateEntityStates(sts) /\ UNCHANGED <<pc, obj, gen, ptm>>

SpecBatch == Init /\ [][NextBatch]_vars

\* Values around an epsilon: any two of them differ by half the epsilon
\* (below it), by the epsilon exactly, or by one and a half times it.
EpsSteps(eps) == {0, eps, eps + eps \div 2}

\* The setters and updateIfDirty on one Object3D: longitude, heading and
\* scale move by steps around their epsilons, latitude by half an epsilon.
NextObject ==
    \/ \E lon \in EpsSteps(POSITION_EPSILON), lat \in {0, POSITION_EPSILON \div 2} :
          CallSetPosition(lon, lat, 0)
    \/ \E heading \in EpsSteps(ATTITUDE_EPSILON) : CallSetAttitude(heading, 0, 0)
    \/ \E d \in EpsSteps(SCALE_EPSILON) : CallSetScale(SCALE_ONE + d)
    \/ CallUpdateIfDirty

SpecObject == Init /\ [][NextObject]_vars

\* Eye positions on the X axis: NEAR and MID above the surface point under
\* the object.
LodEyes == {WGS_84_RADIUS_EQUATOR + DISTANCE_NEAR, WGS_84_RADIUS_EQUATOR + DISTANCE_MID}

\* Altitudes of the object in the detail-switch model: the surface and
\* 200 km, that is 300 km below the lower eye.
LodAlts == {0, DISTANCE_NEAR - 300000}

\* The detail switch of one Object3D: the object is placed and flushed, a
\* billboard image is supplied (the file loads or not), the near threshold
\* is NEAR or MID, auto-detail is switched on and off, and the switch is
\* driven by updateLOD and by forceLODLevel.
NextLod ==
    \/ \E alt \in LodAlts : CallSetPosition(0, 0, alt)
    \/ CallUpdateIfDirty
    \/ \E loaded \in {0, 1} : CallSetBillboardImage(loaded)
    \/ \E nearDist \in {DISTANCE_NEAR, DISTANCE_MID} : CallSetLODDistances(nearDist)
    \/ \E eye \in LodEyes : CallUpdateLOD(eye)
    \/ \E level \in {0 - 1, 0, 1, 2} : CallForceLODLevel(level)
    \/ \E enabled \in {0, 1} : CallSetAutoLOD(enabled)

SpecLod == Init /\ [][NextLod]_vars

\* Visibility of one Object3D: the object is shown and hidden while it is
\* placed and flushed, given a billboard, and switched between the model
\* and the billboard.
NextVisible ==
    \/ \E visible \in {0, 1} : CallSetVisible(visible)
    \/ \E alt \in LodAlts : CallSetPosition(0, 0, alt)
    \/ CallUpdateIfDirty
    \/ \E loaded \in {0, 1} : CallSetBillboardImage(loaded)
    \/ \E level \in {0, 1} : CallForceLODLevel(level)

SpecVisible == Init /\ [][NextVisible]_vars

\* The generators on their own: a coverage volume over forward, single-sample
\* and reversed extents, a trajectory line built with each tier's layer count
\* and with one layer, tiers inside and outside 0..2, radius and length
\* changes below, at and above the guards.
GuardSteps == {0, 5, 50, 100, 150}
GenLevels == {0 - 1, 0, 1, 2, 3}
GenColors == {0, 1}
SensorRadius == 30000000
TrackLength == 100000000
TrackRadius == 100000
AzimuthExtents == {<<0, 120>>, <<0, 45>>, <<10, 10>>, <<40, 0>>}
ElevationExtents == {<<10, 90>>, <<0, 20>>, <<20, 0>>}
TrackLayerCounts ==
    {TRACKLINE_LAYERS_HIGH, TRACKLINE_LAYERS_MID, TRACKLINE_LAYERS_LOW, 1, 0, 0 - 1}

\* the EntityManager plays no part: its camera is the valid one
InitGen ==
    /\ Init
    /\ m_camera.valid

\* construction of the lone generator
NewSensorVolume(radius, color, az, el) ==
    /\ last.op = "construct"
    /\ GeneratorCall("SensorVolume", <<radius, color, az[1], az[2], el[1], el[2]>>,
                     SensorVolume(radius, color, az[1], az[2], el[1], el[2]))

NewTrackLine(length, radius, color, layers) ==
    /\ last.op = "construct"
    /\ GeneratorCall("TrackLine", <<length, radius, color, layers>>,
                     TrackLine(length, radius, color, layers))

NextGen ==
    \/ \E az \in AzimuthExtents, el \in ElevationExtents :
          NewSensorVolume(SensorRadius, 0, az, el)
    \/ \E layers \in TrackLayerCounts :
          NewTrackLine(TrackLength, TrackRadius, 0, layers)
    \/ \E level \in GenLevels : CallSensorSetLodLevel(level)
    \/ \E d \in GuardSteps : CallSensorSetRadius(SensorRadius + d)
    \/ \E color \in GenColors : CallSensorSetColor(color)
    \/ \E az \in AzimuthExtents, el \in ElevationExtents :
          CallSensorSetAngles(az[1], az[2], el[1], el[2])
    \/ \E level \in GenLevels : CallTrackSetLodLevel(level)
    \/ \E d \in GuardSteps : CallTrackSetLength(TrackLength + d)
    \/ \E d \in GuardSteps : CallTrackSetRadius(TrackRadius + d)
    \/ \E color \in GenColors : CallTrackSetColor(color)
    \/ \E layers \in TrackLayerCounts : CallTrackSetLayers(layers)

SpecGen == InitGen /\ [][NextGen]_vars

\* The PerformanceTestManager: up to MaxPairs pairs of a ship and a missile
\* created in one or two calls, billboard images that load or not, both
\* modes, forced levels, animation steps of one epsilon, and a camera just
\* below and at 500 km above the sphere (within the near threshold of every
\* placed entity) and higher, within the near threshold of the missiles only.
PtmEyes ==
    {EARTH_RADIUS + UNIFIED_ALTITUDE - 1, EARTH_RADIUS + UNIFIED_ALTITUDE,
     WGS_84_RADIUS_EQUATOR + 100000 + DISTANCE_NEAR - 1}
AnimationOffsets == {0 - POSITION_EPSILON, POSITION_EPSILON}

NextPtm ==
    \/ \E viewer \in {0, 1} : NewPerformanceTestManager(viewer)
    \/ \E count \in 0..MaxPairs : CallCreateTestEntities(count)
    \/ \E shipLoaded \in {0, 1}, missileLoaded \in {0, 1} :
          CallSetBillboardImages(shipLoaded, missileLoaded)
    \/ \E offset \in AnimationOffsets : CallUpdateAnimation(offset, offset)
    \/ \E eyePos \in PtmEyes : CallPtmUpdateLOD(eyePos)
    \/ \E unifiedMode \in {0, 1} : CallSetGlobalLODMode(unifiedMode)
    \/ \E level \in {0, 1} : CallSetGlobalLODLevel(level)

SpecPtm == InitGen /\ [][NextPtm]_vars

\* The scheduler on one entity: every threshold distance, attached
\* generators, clock steps below and above the update intervals, and a clock
\* that may move during a tick.
NextSched ==
    \/ \E d \in Deltas : AdvanceClock(d) /\ UNCHANGED <<pc, obj, gen, ptm>>
    \/ \E t \in Types : CreateEntity(1, t) /\ UNCHANGED <<pc, obj, gen, ptm>>
    \/ \E st \in States({1}, AltsAll, {0}) : UpdateEntityState(st) /\ UNCHANGED <<pc, obj, gen, ptm>>
    \/ RemoveEntity(1) /\ UNCHANGED <<pc, obj, gen, ptm>>
    \/ \E d \in TickSkews, cut \in {0, 1} : UpdateAll(d, cut) /\ UNCHANGED <<pc, obj, gen, ptm>>
    \/ StartRendering /\ UNCHANGED <<pc, obj, gen, ptm>>
    \/ AddFixedWave(1) /\ UNCHANGED <<pc, obj, gen, ptm>>
    \/ AddRadarTrackLine(1, TRACKLINE_LAYERS_MID) /\ UNCHANGED <<pc, obj, gen, ptm>>

SpecSched == Init /\ [][NextSched]_vars

\* The scenario of the testable properties: a manager with a camera registers
\* ids 1, 2, 3 as ship, missile, ship, receives one update for id 2 that
\* places it less than NEAR from the camera, and ticks once; any time may
\* pass between the steps and during the tick.
InitScenario ==
    /\ Init
    /\ m_camera.valid

NextScenario ==
    \/ \E d \in Deltas : pc # "done" /\ AdvanceClock(d) /\ UNCHANGED <<pc, obj, gen, ptm>>
    \/ pc = "free" /\ CreateEntity(1, "SHIP") /\ pc' = "created1" /\ UNCHANGED <<obj, gen, ptm>>
    \/ pc = "created1" /\ CreateEntity(2, "MISSILE") /\ pc' = "created2" /\ UNCHANGED <<obj, gen, ptm>>
    \/ pc = "created2" /\ CreateEntity(3, "SHIP") /\ pc' = "created3" /\ UNCHANGED <<obj, gen, ptm>>
    \/ \E st \in States({2}, {0} \cup AltsWithinNear, Headings) :
          pc = "created3" /\ UpdateEntityState(st) /\ pc' = "updated2" /\ UNCHANGED <<obj, gen, ptm>>
    \/ \E d \in TickSkews, cut \in {0, 1, 2, 3} :
          pc = "updated2" /\ UpdateAll(d, cut) /\ pc' = "done" /\ UNCHANGED <<obj, gen, ptm>>

SpecScenario == InitScenario /\ [][NextScenario]_vars

\* ------------------------------------------------------------------- claims
\* C1: createEntity with an id that is already registered returns false and
\* leaves every stored entity (count, type, tier, distance, lastUpdateTime,
\* visibility, transform state) as it was; with an id that is not registered
\* it returns true and the count grows by exactly one.
C1_CreateEntityRejectsDuplicate ==
    [][last'.op = "createEntity" =>
         IF last'.id \in DOMAIN m_entities
         THEN /\ ~last'.ret
              /\ m_entities' = m_entities
         ELSE /\ last'.ret
              /\ Cardinality(DOMAIN m_entities') = Cardinality(DOMAIN m_entities) + 1
              /\ \A id \in DOMAIN m_entities : m_entities'[id] = m_entities[id]]_vars

\* a duplicate createEntity was rejected while the registered entity had
\* been culled by a tick and a second entity was registered
C1_Witness ==
    /\ last.op = "createEntity"
    /\ ~last.ret
    /\ Cardinality(DOMAIN m_entities) = 2
    /\ m_entities[last.id].lodLevel = 3
    /\ ~m_entities[last.id].visible

\* C2: the registry holds exactly one ManagedEntity per live identifier: its
\* keys are the ids created and not since removed, each entity's entityId is
\* its key, and getEntityCount() is the number of live ids.
C2_OneEntityPerLiveId ==
    /\ DOMAIN m_entities = h.live
    /\ \A id \in DOMAIN m_entities : m_entities[id].entityId = id
    /\ GetEntityCount = Cardinality(h.live)

\* an entity was removed while another one stayed registered
C2_Witness ==
    /\ last.op = "removeEntity"
    /\ last.ret
    /\ h.live # {}
    /\ last.id \notin DOMAIN m_entities

\* the minimum update interval shouldUpdate applies to a tier
IntervalForTier(tier) ==
    IF tier = 0 THEN UPDATE_INTERVAL_NEAR
    ELSE IF tier = 1 THEN UPDATE_INTERVAL_MID
    ELSE UPDATE_INTERVAL_FAR

\* C3: updateEntityState does not itself flush the Transform Core: when it
\* changes the stored position (or attitude), the position (or attitude)
\* dirty flag is still set when it returns.
C3_UpdateLeavesDirtyFlags ==
    [][(last'.op = "updateEntityState" /\ last'.ret) =>
         LET o == m_entities[last'.id].object
             p == m_entities'[last'.id].object
         IN /\ (<<o.m_longitude, o.m_latitude, o.m_altitude>> #
                   <<p.m_longitude, p.m_latitude, p.m_altitude>>) => p.m_positionDirty
            /\ (<<o.m_heading, o.m_pitch, o.m_roll>> #
                   <<p.m_heading, p.m_pitch, p.m_roll>>) => p.m_attitudeDirty]_vars

\* C4: two consecutive flushes (updateIfDirty calls, from whichever
\* operation) of an entity at tier T in {0,1,2} are at least
\* intervalForTier(T) milliseconds apart.
C4_ThrottleLowerBound ==
    [][\A id \in last'.flushed :
         (h.lastFlush[id] # None /\ m_entities'[id].lodLevel \in 0..2) =>
            h'.lastFlush[id] - h.lastFlush[id] >= IntervalForTier(m_entities'[id].lodLevel)]_vars

\* C5: after every tick run with a valid camera an entity is invisible
\* exactly when its tier is 3.
C5_InvisibleIffTier3 ==
    (last.op = "updateAll" /\ last.ret) =>
        \A id \in DOMAIN m_entities :
            (~m_entities[id].visible) <=> (m_entities[id].lodLevel = 3)

\* C6: an entity a tick found beyond FAR, and which is still there, is
\* invisible and its Transform Core has not been flushed: the position flag
\* raised by the update that moved it there is still set.
C6_BeyondFarKeepsDirtyFlags ==
    \A id \in DOMAIN m_entities :
        (/\ m_entities[id].lastDistance > DISTANCE_FAR
         /\ CalculateDistance(m_entities[id], m_camera) > DISTANCE_FAR) =>
            /\ ~m_entities[id].visible
            /\ m_entities[id].object.m_positionDirty

\* C7 as stated: at the end of the scenario entity 2 has tier 0 and its
\* lastUpdateTime is the now of the tick, whatever time passed between the
\* update and the tick.
C7_ScenarioStampsTickNow ==
    pc = "done" =>
        /\ m_entities[2].lodLevel = 0
        /\ m_entities[2].lastUpdateTime = last.now

\* C7 amended: at the end of the scenario entity 2 has tier 0; its
\* lastUpdateTime is the now of the tick if at least UPDATE_INTERVAL_NEAR
\* ms passed between the update and the start of the tick, and stays the
\* time of the update if fewer than that had passed when the tick ended.
C7_ScenarioStampsAfterInterval ==
    [][(pc = "updated2" /\ pc' = "done") =>
         LET tUpd == m_entities[2].lastUpdateTime
             e == m_entities'[2]
         IN /\ e.lodLevel = 0
            /\ (last'.now - tUpd >= 50) => (e.lastUpdateTime = last'.now)
            /\ (clock' - tUpd < 50) => (e.lastUpdateTime = tUpd)]_vars

\* the scenario ended with a tick that flushed entity 2, 50 ms after the
\* update
C7_Witness ==
    /\ pc = "done"
    /\ 2 \in last.flushed
    /\ m_entities[2].lodLevel = 0
    /\ m_entities[2].lastUpdateTime = last.now
    /\ h.lastFlush[2] = clock

\* C8: a tick stores the distance it computed in lastDistance and assigns
\* tier 0 below NEAR, 1 from NEAR to below MID, 2 from MID to below FAR and
\* 3 from FAR on; the stored tier is always one of 0, 1, 2, 3.
C8_TierClassification ==
    \A id \in DOMAIN m_entities :
        LET e == m_entities[id]
            d == e.lastDistance
        IN /\ e.lodLevel \in {0, 1, 2, 3}
           /\ (last.op = "updateAll" /\ last.ret) =>
                /\ d = Abs(WGS_84_RADIUS_EQUATOR + e.object.m_altitude - m_camera.eye)
                /\ (d < 500000) => (e.lodLevel = 0)
                /\ (500000 <= d /\ d < 2000000) => (e.lodLevel = 1)
                /\ (2000000 <= d /\ d < 5000000) => (e.lodLevel = 2)
                /\ (d >= 5000000) => (e.lodLevel = 3)

\* a tick classified an entity at distance exactly MID as tier 2
C8_Witness ==
    /\ last.op = "updateAll"
    /\ last.ret
    /\ \E id \in DOMAIN m_entities :
          /\ m_entities[id].lastDistance = DISTANCE_MID
          /\ m_entities[id].lodLevel = 2

\* C9: between two ticks of the same entity the tier moves with the
\* distance: a distance that did not decrease gives a tier that did not
\* decrease, a distance that did not increase a tier that did not increase.
\* (The entity may move anywhere between two ticks, so every pair of
\* distances occurs at two consecutive ticks.)
C9_TierMonotoneInDistance ==
    [][(last'.op = "updateAll" /\ last'.ret) =>
         \A id \in last'.reticked :
            LET e == m_entities[id]
                f == m_entities'[id]
            IN /\ (e.lastDistance <= f.lastDistance) => (e.lodLevel <= f.lodLevel)
               /\ (e.lastDistance >= f.lastDistance) => (e.lodLevel >= f.lodLevel)]_vars

\* an entity ticked before was ticked again, now at distance MID, tier 2
C9_Witness ==
    /\ last.op = "updateAll"
    /\ \E id \in last.reticked :
          /\ m_entities[id].lastDistance = DISTANCE_MID
          /\ m_entities[id].lodLevel = 2

\* C10: an entity a tick flushed has tier 0, 1 or 2, no dirty flag set,
\* every attached generator at the entity's tier, and lastUpdateTime equal
\* to the now of the tick.
C10_FlushEffects ==
    (last.op = "updateAll") =>
        \A id \in last.flushed :
            LET e == m_entities[id] IN
            /\ e.lodLevel \in 0..2
            /\ ~e.object.m_positionDirty
            /\ ~e.object.m_attitudeDirty
            /\ ~e.object.m_scaleDirty
            /\ \A i \in DOMAIN e.object.gens :
                  e.object.gens[i].m_currentLodLevel = e.lodLevel
            /\ e.lastUpdateTime = last.now

\* a tick flushed an entity at tier 2 and moved its generator to tier 2
C10_Witness ==
    /\ last.op = "updateAll"
    /\ \E id \in last.flushed :
          /\ m_entities[id].lodLevel = 2
          /\ Len(m_entities[id].object.gens) = 1
          /\ m_entities[id].object.gens[1].m_currentLodLevel = 2
          /\ m_entities[id].object.gens[1].param \in {SENSOR_AZI_STEP_LOW, TRACKLINE_LAYERS_LOW}

\* C11: updateEntityState with an id that is not registered changes
\* nothing: no entity is created, the count stays, and every existing
\* entity keeps its position, attitude, dirty flags, tier, visibility and
\* lastUpdateTime.
C11_UnknownUpdateIsNoOp ==
    [][(last'.op = "updateEntityState" /\ last'.id \notin DOMAIN m_entities) =>
         /\ ~last'.ret
         /\ DOMAIN m_entities' = DOMAIN m_entities
         /\ Cardinality(DOMAIN m_entities') = GetEntityCount
         /\ \A id \in DOMAIN m_entities :
               LET e == m_entities[id]
                   f == m_entities'[id]
               IN /\ <<f.object.m_longitude, f.object.m_latitude, f.object.m_altitude>>
                       = <<e.object.m_longitude, e.object.m_latitude, e.object.m_altitude>>
                  /\ <<f.object.m_heading, f.object.m_pitch, f.object.m_roll>>
                       = <<e.object.m_heading, e.object.m_pitch, e.object.m_roll>>
                  /\ <<f.object.m_positionDirty, f.object.m_attitudeDirty, f.object.m_scaleDirty>>
                       = <<e.object.m_positionDirty, e.object.m_attitudeDirty, e.object.m_scaleDirty>>
                  /\ f.lodLevel = e.lodLevel
                  /\ f.visible = e.visible
                  /\ f.lastUpdateTime = e.lastUpdateTime
                  /\ f = e]_vars

\* an update for an unregistered id was rejected while another entity,
\* moved beyond FAR and culled, was registered
C11_Witness ==
    /\ last.op = "updateEntityState"
    /\ ~last.ret
    /\ last.id \notin DOMAIN m_entities
    /\ \E id \in DOMAIN m_entities :
          /\ m_entities[id].object.m_altitude = 6000000
          /\ ~m_entities[id].visible

\* C13: removeEntity with an absent id changes nothing; with a present id
\* it removes exactly that entity, the count drops by one, every other
\* entity is unchanged and a createEntity for the same id right after
\* succeeds; clearAllEntities leaves the registry empty, with entity count
\* and visible entity count 0.
C13_RemoveAndClear ==
    [][/\ (last'.op = "removeEntity") =>
            IF last'.id \notin DOMAIN m_entities
            THEN /\ ~last'.ret
                 /\ m_entities' = m_entities
            ELSE /\ last'.ret
                 /\ DOMAIN m_entities' = DOMAIN m_entities \ {last'.id}
                 /\ Cardinality(DOMAIN m_entities') = GetEntityCount - 1
                 /\ \A id \in DOMAIN m_entities' : m_entities'[id] = m_entities[id]
       /\ (last.op = "removeEntity" /\ last.ret /\ last'.op = "createEntity"
              /\ last'.id = last.id) =>
            /\ last'.ret
            /\ last.id \in DOMAIN m_entities'
       /\ (last'.op = "clearAllEntities") =>
            /\ DOMAIN m_entities' = {}
            /\ GetEntityCount' = 0
            /\ GetVisibleEntityCount' = 0]_vars

\* a removal took one entity out and left the other, culled at 6000 km, in
\* the registry
C13_Witness ==
    /\ last.op = "removeEntity"
    /\ last.ret
    /\ Cardinality(DOMAIN m_entities) = 1
    /\ \A id \in DOMAIN m_entities :
          /\ id # last.id
          /\ m_entities[id].lodLevel = 3
          /\ m_entities[id].object.m_altitude = 6000000

\* m_entities after one updateEntityState(st) at clock reading now
SingleUpdate(ents, st, now) ==
    IF st.entityId \in DOMAIN ents
    THEN [ents EXCEPT ![st.entityId] = ApplyState(@, st, now)]
    ELSE ents

\* m_entities after updateEntityState on each element of states, first to
\* last
RECURSIVE UpdateEachInOrder(_, _, _)
UpdateEachInOrder(ents, states, now) ==
    IF states = << >>
    THEN ents
    ELSE UpdateEachInOrder(SingleUpdate(ents, Head(states), now), Tail(states), now)

\* C12: updateEntityStates(states) leaves the registry as updateEntityState
\* on each element in order would; no id is added, an entity no element
\* names is unchanged, and an entity named by one or more elements holds the
\* position and attitude of the last element that names it.
C12_BatchIsRepeatedUpdate ==
    [][(last'.op = "updateEntityStates") =>
         LET sts == last'.args
             Named(id) == {k \in DOMAIN sts : sts[k].entityId = id}
             LastOf(id) == CHOOSE k \in Named(id) : \A j \in Named(id) : j <= k
         IN /\ m_entities' = UpdateEachInOrder(m_entities, sts, clock)
            /\ DOMAIN m_entities' = DOMAIN m_entities
            /\ \A id \in DOMAIN m_entities :
                  IF Named(id) = {}
                  THEN m_entities'[id] = m_entities[id]
                  ELSE LET o == m_entities'[id].object
                           st == sts[LastOf(id)]
                       IN /\ <<o.m_longitude, o.m_latitude, o.m_altitude>>
                               = <<st.lon, st.lat, st.alt>>
                          /\ <<o.m_heading, o.m_pitch, o.m_roll>>
                               = <<st.heading, st.pitch, st.roll>>]_vars

\* a batch named the unknown id 2 first and the registered id 1 second, and
\* id 1 was moved beyond FAR with heading 90 degrees
C12_Witness ==
    /\ last.op = "updateEntityStates"
    /\ Len(last.args) >= 2
    /\ last.args[1].entityId \notin DOMAIN m_entities
    /\ last.args[Len(last.args)].entityId \in DOMAIN m_entities
    /\ \E id \in DOMAIN m_entities :
          /\ id = last.args[Len(last.args)].entityId
          /\ m_entities[id].object.m_altitude = 6000000
          /\ m_entities[id].object.m_heading = 900000000

\* C14: a setPosition, setAttitude or setScale call whose new value is
\* less than the epsilon away from the stored one in every component leaves
\* the object as it was: stored values, dirty flags and both transforms.
C14_SubEpsilonCallChangesNothing ==
    [][LET a == last'.args IN
       /\ (/\ last'.op = "setPosition"
           /\ Abs(obj.m_longitude - a[1]) < POSITION_EPSILON
           /\ Abs(obj.m_latitude - a[2]) < POSITION_EPSILON
           /\ obj.m_altitude = a[3]) => obj' = obj
       /\ (/\ last'.op = "setAttitude"
           /\ Abs(obj.m_heading - a[1]) < ATTITUDE_EPSILON
           /\ Abs(obj.m_pitch - a[2]) < ATTITUDE_EPSILON
           /\ Abs(obj.m_roll - a[3]) < ATTITUDE_EPSILON) => obj' = obj
       /\ (/\ last'.op = "setScale"
           /\ Abs(obj.m_scale - a[1]) < SCALE_EPSILON) => obj' = obj]_vars

\* a setPosition asked for a longitude and a latitude half an epsilon away
\* from the stored ones, after a flush: the flag is still clear
C14_Witness ==
    /\ last.op = "setPosition"
    /\ Abs(last.args[1] - obj.m_longitude) = 5
    /\ Abs(last.args[2] - obj.m_latitude) = 5
    /\ ~obj.m_positionDirty
    /\ ~obj.m_earthTransform.ident
    /\ obj.m_earthTransform.lon = obj.m_longitude

\* the largest component delta of a setter call with arguments a against
\* the stored values of o
MaxDelta(op, o, a) ==
    LET d == IF op = "setPosition"
             THEN {Abs(o.m_longitude - a[1]), Abs(o.m_latitude - a[2]),
                   Abs(o.m_altitude - a[3])}
             ELSE IF op = "setAttitude"
             THEN {Abs(o.m_heading - a[1]), Abs(o.m_pitch - a[2]),
                   Abs(o.m_roll - a[3])}
             ELSE {Abs(o.m_scale - a[1])}
    IN CHOOSE x \in d : \A y \in d : y <= x

\* the epsilon of a setter, in the units of its arguments
EpsilonOf(op) ==
    IF op = "setPosition" THEN POSITION_EPSILON
    ELSE IF op = "setAttitude" THEN ATTITUDE_EPSILON
    ELSE SCALE_EPSILON

\* the object after a setter stored its arguments and raised its flag
Stored(op, o, a) ==
    IF op = "setPosition"
    THEN [o EXCEPT !.m_longitude = a[1], !.m_latitude = a[2],
                   !.m_altitude = a[3], !.m_positionDirty = TRUE]
    ELSE IF op = "setAttitude"
    THEN [o EXCEPT !.m_heading = a[1], !.m_pitch = a[2],
                   !.m_roll = a[3], !.m_attitudeDirty = TRUE]
    ELSE [o EXCEPT !.m_scale = a[1], !.m_scaleDirty = TRUE]

\* C15 as stated: a setter call whose largest component delta is exactly
\* the epsilon changes neither the stored value nor the dirty flag.
C15_ExactEpsilonChangesNothing ==
    [][(/\ last'.op \in {"setPosition", "setAttitude", "setScale"}
        /\ MaxDelta(last'.op, obj, last'.args) = EpsilonOf(last'.op)) =>
          obj' = obj]_vars

\* C15 amended: a setter stores the new value and raises its dirty flag
\* exactly when some component differs from the stored one by the epsilon
\* or more; a call whose largest component delta is exactly the epsilon
\* stores every component of the new value and raises the flag, and a call
\* whose largest delta is below the epsilon changes nothing.
C15_SetterStoresFromEpsilonOn ==
    [][(last'.op \in {"setPosition", "setAttitude", "setScale"}) =>
         IF MaxDelta(last'.op, obj, last'.args) >= EpsilonOf(last'.op)
         THEN obj' = Stored(last'.op, obj, last'.args)
         ELSE obj' = obj]_vars

\* a setScale moved the scale by exactly the epsilon from the value the
\* last flush saw, and the scale flag is raised
C15_Witness ==
    /\ last.op = "setScale"
    /\ obj.m_scale = last.args[1]
    /\ ~obj.m_onceTransform.ident
    /\ Abs(obj.m_scale - obj.m_onceTransform.scale) = SCALE_EPSILON
    /\ obj.m_scaleDirty

\* C16: updateIfDirty rebuilds the earth transform from the stored position
\* when the position flag is set and leaves it unchanged otherwise; rebuilds
\* the once transform from the stored attitude and scale when the attitude
\* or the scale flag is set and leaves it unchanged otherwise; clears all
\* three flags and changes nothing else; a second call right after the
\* first changes nothing.
C16_UpdateIfDirtyPerTransform ==
    [][(last'.op = "updateIfDirty") =>
         /\ obj'.m_earthTransform =
               IF obj.m_positionDirty
               THEN [ident |-> FALSE,
                     trans |-> WGS_84_RADIUS_EQUATOR + obj.m_altitude,
                     lon |-> obj.m_longitude, lat |-> obj.m_latitude]
               ELSE obj.m_earthTransform
         /\ obj'.m_onceTransform =
               IF obj.m_attitudeDirty \/ obj.m_scaleDirty
               THEN [ident |-> FALSE, scale |-> obj.m_scale,
                     h |-> obj.m_heading, p |-> obj.m_pitch, r |-> obj.m_roll]
               ELSE obj.m_onceTransform
         /\ ~obj'.m_positionDirty /\ ~obj'.m_attitudeDirty /\ ~obj'.m_scaleDirty
         /\ obj' = [obj EXCEPT !.m_earthTransform = obj'.m_earthTransform,
                               !.m_onceTransform = obj'.m_onceTransform,
                               !.m_positionDirty = FALSE,
                               !.m_attitudeDirty = FALSE,
                               !.m_scaleDirty = FALSE]
         /\ (last.op = "updateIfDirty") => obj' = obj]_vars

\* an updateIfDirty found the scale changed since the earth transform was
\* built at longitude 15 and the once transform at heading 10
C16_Witness ==
    /\ last.op = "updateIfDirty"
    /\ obj.m_earthTransform.lon = 15
    /\ obj.m_onceTransform.h = 10
    /\ obj.m_onceTransform.scale = SCALE_ONE + 15
    /\ ~obj.m_scaleDirty

\* distance from the translation of o's earth transform to an eye on the
\* X axis
EyeDistance(o, eyePosition) == Abs(eyePosition - o.m_earthTransform.trans)

\* C17: with auto-detail enabled, updateLOD(eye) switches child 0 on and
\* child 1 off when the distance from the earth transform to the eye is
\* below the near threshold, and child 0 off and child 1 on otherwise; after
\* the call exactly one of the two positions is switched on.
C17_UpdateLODSelectsByDistance ==
    [][(last'.op = "updateLOD" /\ obj.m_autoLOD) =>
         LET v == obj'.m_lodSwitch.values IN
         /\ Len(v) = 2
         /\ (EyeDistance(obj, last'.args[1]) < obj.m_nearDistance) =>
               (v[1] /\ ~v[2])
         /\ (EyeDistance(obj, last'.args[1]) >= obj.m_nearDistance) =>
               (~v[1] /\ v[2])
         /\ v[1] # v[2]
         /\ obj' = [obj EXCEPT !.m_lodSwitch.values = v]]_vars

\* an updateLOD at a distance exactly equal to the near threshold selected
\* the billboard of an object that has one
C17_Witness ==
    /\ last.op = "updateLOD"
    /\ obj.m_autoLOD
    /\ obj.m_billboardNode
    /\ EyeDistance(obj, last.args[1]) = obj.m_nearDistance
    /\ ~FullShown(obj)
    /\ ProxyShown(obj)

C19_ProxyWithoutImageIsNoOp ==
    [][(/\ ~obj.m_billboardNode
        /\ \/ /\ last'.op = "updateLOD"
              /\ obj.m_autoLOD
              /\ EyeDistance(obj, last'.args[1]) >= obj.m_nearDistance
           \/ /\ last'.op = "forceLODLevel"
              /\ last'.args[1] = 1) =>
          /\ obj'.m_lodSwitch = obj.m_lodSwitch
          /\ FullShown(obj) => FullShown(obj')]_vars

\* C20: while auto-detail is disabled, updateLOD leaves the object
\* unchanged for every eye position, and a call that changes which
\* representation is shown is a forceLODLevel.
C20_ManualModeOnlyForce ==
    [][~obj.m_autoLOD =>
         /\ (last'.op = "updateLOD") => obj' = obj
         /\ (\/ FullShown(obj') # FullShown(obj)
             \/ ProxyShown(obj') # ProxyShown(obj)) => last'.op = "forceLODLevel"]_vars

\* with auto-detail disabled and the billboard forced on, an updateLOD from
\* an eye below the near threshold left the billboard shown
C20_Witness ==
    /\ last.op = "updateLOD"
    /\ ~obj.m_autoLOD
    /\ EyeDistance(obj, last.args[1]) < obj.m_nearDistance
    /\ ProxyShown(obj)
    /\ ~FullShown(obj)

\* C21: forceLODLevel with a level out of range acts as with the nearest
\* valid level: a negative level switches the model on and the billboard
\* off, as forceLODLevel(0) does, and a level above 1 switches the model off
\* and the billboard on, as forceLODLevel(1) does.
C21_ForceLODLevelClamps ==
    [][(last'.op = "forceLODLevel") =>
         /\ (last'.args[1] < 0) =>
               /\ FullShown(obj') = FullShown(ForceLODLevel(obj, 0))
               /\ ProxyShown(obj') = ProxyShown(ForceLODLevel(obj, 0))
               /\ FullShown(obj')
         /\ (last'.args[1] > 1) =>
               /\ FullShown(obj') = FullShown(ForceLODLevel(obj, 1))
               /\ ProxyShown(obj') = ProxyShown(ForceLODLevel(obj, 1))
               /\ ~FullShown(obj')]_vars

\* ------------------------------------------------------ geometry generators
\* the tier setLodLevel(level) asks for
ClampedLevel(level) == IF level < 0 THEN 0 ELSE IF level > 2 THEN 2 ELSE level

\* C22: setLodLevel(level) of either generator clamps level to 0..2.  When
\* the clamped level is the current tier the generator, its buffers included,
\* is unchanged; otherwise the tier becomes the clamped level and the
\* geometry is the one built with that tier's parameter: step 10/20/40 for
\* the coverage volume, 150/80/40 layers for the trajectory line.
C22_SetLodLevelClampsAndRebuilds ==
    [][(last'.op \in {"SensorVolume::setLodLevel", "TrackLine::setLodLevel"}) =>
         LET l == ClampedLevel(last'.args[1]) IN
         IF l = gen.m_currentLodLevel
         THEN gen' = gen
         ELSE /\ gen'.m_currentLodLevel = l
              /\ (gen.kind = "sensor") =>
                    /\ gen'.param = (CASE l = 0 -> 10 [] l = 1 -> 20 [] l = 2 -> 40)
                    /\ gen' = SensorRebuildGeometry([gen EXCEPT !.m_currentLodLevel = l])
              /\ (gen.kind = "track") =>
                    /\ gen'.param = (CASE l = 0 -> 150 [] l = 1 -> 80 [] l = 2 -> 40)
                    /\ gen' = TrackRebuildGeometry(
                                 [gen EXCEPT !.m_currentLodLevel = l,
                                             !.param = gen'.param])]_vars

C22_Witness ==
    /\ last.op = "SensorVolume::setLodLevel"
    /\ last.args[1] < 0
    /\ gen.m_currentLodLevel = 0
    /\ gen.param = SENSOR_AZI_STEP_HIGH
    /\ gen.geometry.vertices = 13 * 9

\* C26 as stated: the trajectory line has layers x (segments + 1) vertices,
\* 80 x 17 at tier 1, all of them covered by its one triangle strip.
C26_LayersTimesRing ==
    (gen.kind = "track" /\ gen.param >= 0) =>
        /\ gen.geometry.vertices = gen.param * (TRACK_SEGMENTS + 1)
        /\ Len(gen.geometry.primitives) = 1
        /\ gen.geometry.primitives[1].count = gen.geometry.vertices

\* C26 amended: the trajectory line has (layers + 1) x (segments + 1)
\* vertices, rings 0..layers of 17 vertices each (81 x 17 at tier 1), none
\* when layers is negative, and its one triangle strip starts at vertex 0 and
\* covers exactly that many vertices.
C26_RingsTimesRing ==
    (gen.kind = "track") =>
        /\ gen.geometry.vertices =
              (IF gen.param >= 0 THEN (gen.param + 1) * 17 ELSE 0)
        /\ Len(gen.geometry.primitives) = 1
        /\ gen.geometry.primitives[1].first = 0
        /\ gen.geometry.primitives[1].count = gen.geometry.vertices

C26_Witness ==
    /\ gen.kind = "track"
    /\ last.op = "TrackLine::setLodLevel"
    /\ gen.m_currentLodLevel = 1
    /\ gen.param = TRACKLINE_LAYERS_MID
    /\ gen.geometry.vertices = 81 * 17
    /\ gen.geometry.primitives[1].count = 1377

\* C27: for a coverage volume over whole-degree extents that are not
\* reversed, at each tier's step, the rebuild emits two triangles per grid
\* cell: 6 x (A - 1) x (E - 1) indices, A and E the numbers of azimuth and
\* elevation samples generated as vertices, and every index is below the
\* number A x E of vertices.
C27_TwoTrianglesPerCell ==
    (/\ gen.kind = "sensor"
     /\ gen.m_azimuthStart <= gen.m_azimuthEnd
     /\ gen.m_elevationStart <= gen.m_elevationEnd) =>
        LET A == LoopPasses(gen.m_azimuthStart, gen.m_azimuthEnd,
                            SensorStepForLevel(gen.m_currentLodLevel))
            E == LoopPasses(gen.m_elevationStart, gen.m_elevationEnd,
                            SensorEleStepForLevel(gen.m_currentLodLevel))
        IN /\ gen.geometry.vertices = A * E
           /\ Len(gen.geometry.indices) = 6 * (A - 1) * (E - 1)
           /\ \A k \in DOMAIN gen.geometry.indices :
                 /\ gen.geometry.indices[k] >= 0
                 /\ gen.geometry.indices[k] < gen.geometry.vertices

C27_Witness ==
    /\ gen.kind = "sensor"
    /\ gen.m_azimuthStart = 0 /\ gen.m_azimuthEnd = 45
    /\ gen.m_elevationStart = 10 /\ gen.m_elevationEnd = 90
    /\ gen.m_currentLodLevel = 0
    /\ gen.geometry.vertices = 5 * 9
    /\ Len(gen.geometry.indices) = 6 * 4 * 8
    /\ \E k \in DOMAIN gen.geometry.indices : gen.geometry.indices[k] = 44

\* C28: setRadius of either generator and setLength of the trajectory line
\* leave the generator unchanged when the new value is within 1 unit of the
\* stored one, and store it and rebuild when it is further away; setColor
\* and setAngles always store and rebuild.
C28_GuardedSetters ==
    [][LET a == last'.args IN
       /\ (last'.op \in {"SensorVolume::setRadius", "TrackLine::setRadius"}) =>
             IF Abs(gen.m_radius - a[1]) <= 100
             THEN gen' = gen
             ELSE gen'.m_radius = a[1] /\ gen'.geometry.radius = a[1]
       /\ (last'.op = "TrackLine::setLength") =>
             IF Abs(gen.m_length - a[1]) <= 100
             THEN gen' = gen
             ELSE gen'.m_length = a[1] /\ gen'.geometry.length = a[1]
       /\ (last'.op \in {"SensorVolume::setColor", "TrackLine::setColor"}) =>
             gen'.m_color = a[1] /\ gen'.geometry.color = a[1]
       /\ (last'.op = "SensorVolume::setAngles") =>
             /\ gen'.m_azimuthStart = a[1] /\ gen'.m_azimuthEnd = a[2]
             /\ gen'.m_elevationStart = a[3] /\ gen'.m_elevationEnd = a[4]
             /\ gen'.geometry = SensorRebuildGeometry(gen').geometry]_vars

\* ----------------------------------------------------------------- Object3D
\* C30: setVisible with the value the object already has changes neither
\* the flag nor the node mask nor anything else, and setVisible(v) applied a
\* second time gives the state the first application gave.
C30_SetVisibleIdempotent ==
    [][(last'.op = "setVisible") =>
         LET v == (last'.args[1] = 1) IN
         /\ (obj.m_visible = v) => obj' = obj
         /\ obj'.m_visible = v
         /\ obj'.nodeMask = v
         /\ SetVisible(obj', v) = obj'
         /\ obj' = [obj EXCEPT !.m_visible = v, !.nodeMask = v]]_vars

\* a flushed object showing its billboard, hidden by setVisible(false)
C30_Witness ==
    /\ last.op = "setVisible"
    /\ last.args[1] = 0
    /\ ~obj.m_visible
    /\ ~obj.nodeMask
    /\ ~obj.m_positionDirty
    /\ ProxyShown(obj)

\* ------------------------------------------------------------ EntityManager
\* C29: a tick with a valid camera runs to its end over the whole registry:
\* the registered ids are the same after it, the frame is counted once, and
\* every entity, flushed, throttled or culled, has lastDistance recomputed
\* from its stored position and the camera, and its tier from that distance.
C29_TickRecomputesEveryEntity ==
    [][(last'.op = "updateAll" /\ last'.ret) =>
         /\ DOMAIN m_entities' = DOMAIN m_entities
         /\ m_frameCount' = m_frameCount + 1
         /\ \A id \in DOMAIN m_entities :
               LET e == m_entities'[id]
                   distance == Abs(WGS_84_RADIUS_EQUATOR
                                     + m_entities[id].object.m_altitude - m_camera.eye)
               IN /\ e.lastDistance = distance
                  /\ e.lodLevel = (IF distance < DISTANCE_NEAR THEN 0
                                   ELSE IF distance < DISTANCE_MID THEN 1
                                   ELSE IF distance < DISTANCE_FAR THEN 2 ELSE 3)
                  /\ e.visible = ~(distance > DISTANCE_FAR)
                  /\ (id \in last'.flushed) => e.lastUpdateTime = last'.now
                  /\ (id \notin last'.flushed) =>
                        e.lastUpdateTime = m_entities[id].lastUpdateTime]_vars

\* a tick over two entities that flushed neither: one is culled, the other
\* within NEAR and throttled
C29_Witness ==
    /\ last.op = "updateAll"
    /\ last.ret
    /\ last.flushed = {}
    /\ Cardinality(DOMAIN m_entities) = 2
    /\ \E id \in DOMAIN m_entities :
          /\ m_entities[id].lastDistance > DISTANCE_FAR
          /\ m_entities[id].lodLevel = 3
          /\ ~m_entities[id].visible
    /\ \E id \in DOMAIN m_entities :
          /\ m_entities[id].lastDistance < DISTANCE_NEAR
          /\ m_entities[id].lodLevel = 0

\* --------------------------------------------------- PerformanceTestManager
\* every ship and every missile of the manager
PtmObjects(p) ==
    {p.m_entities[i].ship : i \in DOMAIN p.m_entities}
        \cup {p.m_entities[i].missile : i \in DOMAIN p.m_entities}

\* C23: in unified mode one updateLOD (with a viewer and camera) puts the
\* detail switch of every ship and every missile at the same level: the
\* model on and the billboard off when the camera is less than 500 km above
\* the sphere of radius 6371 km, the model off and the billboard on from
\* 500 km on; no two entities differ in their switch values afterwards.
C23_UnifiedUpdateForcesOneLevel ==
    [][(last'.op = "updateLOD" /\ ptm.m_unifiedLODMode /\ ptm.m_viewer) =>
         LET level == IF Abs(last'.args[1]) - 6371000 < 500000 THEN 0 ELSE 1 IN
         /\ \A o \in PtmObjects(ptm') :
               /\ o.m_lodSwitch.values[1] = (level = 0)
               /\ o.m_lodSwitch.values[2] = (level = 1)
         /\ \A o1, o2 \in PtmObjects(ptm') :
               o1.m_lodSwitch.values = o2.m_lodSwitch.values
         /\ Len(ptm'.m_entities) = Len(ptm.m_entities)
         /\ ptm'.m_unifiedLODMode]_vars

\* two pairs, the camera exactly 500 km up: every model is off, and the
\* ships, which have a billboard, show it
C23_Witness ==
    /\ last.op = "updateLOD"
    /\ last.args[1] = EARTH_RADIUS + UNIFIED_ALTITUDE
    /\ ptm.m_unifiedLODMode
    /\ ptm.m_viewer
    /\ Len(ptm.m_entities) = 2
    /\ \A o \in PtmObjects(ptm) : ~FullShown(o)
    /\ \A i \in DOMAIN ptm.m_entities : ProxyShown(ptm.m_entities[i].ship)

\* C24: every entity's auto-detail flag is the negation of the manager's
\* unified-mode flag, whatever createTestEntities and setGlobalLODMode calls
\* (and other calls) have been made, entities created after the last mode
\* change included.
C24_AutoDetailNegatesUnifiedMode ==
    \A o \in PtmObjects(ptm) : o.m_autoLOD = ~ptm.m_unifiedLODMode

\* a second createTestEntities call in unified mode
C24_Witness ==
    /\ last.op = "createTestEntities"
    /\ last.args[1] = 1
    /\ Len(ptm.m_entities) = 2
    /\ ptm.m_unifiedLODMode
    /\ \A o \in PtmObjects(ptm) : ~o.m_autoLOD

\* C25: setGlobalLODLevel in individual mode leaves the detail switch of
\* every entity unchanged.
C25_ForcedLevelOnlyInUnifiedMode ==
    [][(last'.op = "setGlobalLODLevel" /\ ~ptm.m_unifiedLODMode) =>
         \A i \in DOMAIN ptm.m_entities :
            /\ ptm'.m_entities[i].ship.m_lodSwitch = ptm.m_entities[i].ship.m_lodSwitch
            /\ ptm'.m_entities[i].missile.m_lodSwitch
                  = ptm.m_entities[i].missile.m_lodSwitch]_vars

\* C31: a tick that classifies an entity as tier 3 and culls it (distance
\* above FAR) leaves the entity's dirty flags, both transforms, the tiers of
\* its generators and its lastUpdateTime as they were; of the entity only
\* lastDistance, the tier and the visibility (the entity's flag, the
\* object's flag and node mask) may differ afterwards.
C31_CulledTickTouchesNothingElse ==
    [][(last'.op = "updateAll" /\ last'.ret) =>
         \A id \in DOMAIN m_entities :
            (m_entities'[id].lastDistance > DISTANCE_FAR) =>
               LET e == m_entities[id]
                   f == m_entities'[id]
               IN /\ f.lodLevel = 3
                  /\ ~f.visible
                  /\ id \notin last'.flushed
                  /\ f.lastUpdateTime = e.lastUpdateTime
                  /\ f.object.m_positionDirty = e.object.m_positionDirty
                  /\ f.object.m_attitudeDirty = e.object.m_attitudeDirty
                  /\ f.object.m_scaleDirty = e.object.m_scaleDirty
                  /\ f.object.m_earthTransform = e.object.m_earthTransform
                  /\ f.object.m_onceTransform = e.object.m_onceTransform
                  /\ f.object.gens = e.object.gens
                  /\ f = [e EXCEPT !.lastDistance = f.lastDistance,
                                   !.lodLevel = f.lodLevel,
                                   !.visible = f.visible,
                                   !.object.m_visible = f.object.m_visible,
                                   !.object.nodeMask = f.object.nodeMask]]_vars

\* an entity with a generator at tier 1, culled by a tick that ran
\* UPDATE_INTERVAL_FAR or more after its last stamp
C31_Witness ==
    /\ last.op = "updateAll"
    /\ last.ret
    /\ 1 \in DOMAIN m_entities
    /\ m_entities[1].lastDistance > DISTANCE_FAR
    /\ m_entities[1].lodLevel = 3
    /\ ~m_entities[1].visible
    /\ ~m_entities[1].object.m_visible
    /\ Len(m_entities[1].object.gens) = 1
    /\ m_entities[1].object.gens[1].m_currentLodLevel = 1
    /\ last.now - m_entities[1].lastUpdateTime >= UPDATE_INTERVAL_FAR


\* ------------------------------------------- the scheduler, time without end
\* The scheduler reads the clock only in the difference now - lastUpdateTime
\* (shouldUpdate), which it compares with intervals of at most
\* UPDATE_INTERVAL_FAR. Below, the clock keeps its reading and the passage of
\* d ms moves every lastUpdateTime d ms into the past, no further than
\* UPDATE_INTERVAL_FAR behind the clock: the same differences, in a state
\* space where time can pass for ever.
Elapse(d) ==
    /\ m_entities' = [id \in DOMAIN m_entities |->
                         [m_entities[id] EXCEPT !.lastUpdateTime =
                              IF @ - d < clock - UPDATE_INTERVAL_FAR
                              THEN clock - UPDATE_INTERVAL_FAR ELSE @ - d]]
    /\ last' = NoOp("advance", 0, TRUE)
    /\ UNCHANGED <<clock, m_camera, m_frameCount, h>>

\* Altitudes a producer submits for an entity that stays within range:
\* tier 0, tier 1 and tier 2.
AltsInRange == AltsWithinNear \cup {DISTANCE_NEAR, DISTANCE_MID}

InitLive ==
    /\ clock = UPDATE_INTERVAL_FAR
    /\ m_camera = [valid |-> TRUE, eye |-> WGS_84_RADIUS_EQUATOR]
    /\ m_entities = << >>
    /\ m_frameCount = 0
    /\ last = NoOp("construct", 0, TRUE)
    /\ h = [live |-> {}, lastFlush |-> [id \in AllIds |-> None], ticked |-> {}]
    /\ pc = "free"
    /\ obj = Object3D
    /\ gen = TrackLine(100000000, 100000, 1, TRACKLINE_LAYERS_MID)
    /\ ptm = PerformanceTestManager(TRUE)

\* the 20 Hz timer's callback
TimerTick == UpdateAll(0, 0) /\ UNCHANGED <<pc, obj, gen, ptm>>

\* the frame count starts again once it has reached its bound
TimerRestart ==
    m_frameCount >= MaxFrames /\ StartRendering /\ UNCHANGED <<pc, obj, gen, ptm>>

TimePasses == \E d \in Deltas : Elapse(d) /\ UNCHANGED <<pc, obj, gen, ptm>>

NextLive ==
    \/ TimePasses
    \/ TimerTick
    \/ TimerRestart
    \/ \E t \in Types : CreateEntity(1, t) /\ UNCHANGED <<pc, obj, gen, ptm>>
    \/ \E st \in States({1}, AltsInRange, {0}) :
           UpdateEntityState(st) /\ UNCHANGED <<pc, obj, gen, ptm>>
    \/ AddFixedWave(1) /\ UNCHANGED <<pc, obj, gen, ptm>>
    \/ AddRadarTrackLine(1, TRACKLINE_LAYERS_MID) /\ UNCHANGED <<pc, obj, gen, ptm>>

\* updateAll with a valid camera is the one operation that counts a frame:
\* a step that counts a frame is a tick of the timer, and one is possible
\* exactly when TimerTick is.
FrameCounted == m_frameCount < MaxFrames /\ m_frameCount' = m_frameCount + 1

\* The timer keeps firing and time keeps passing; nothing is assumed of the
\* producer, which may call updateEntityState at any rate or never.
SpecLive ==
    /\ InitLive
    /\ [][NextLive]_vars
    /\ WF_m_frameCount(FrameCounted)
    /\ WF_vars(TimerRestart)
    /\ WF_vars(TimePasses)

\* entity 1 is registered (in SpecLive it is within range from then on)
InRange == 1 \in DOMAIN m_entities

\* the last operation was a tick that flushed entity 1
FlushedByTick == last.op = "updateAll" /\ 1 \in last.flushed

\* some generator attached to entity 1 is not at the entity's tier
GeneratorLags ==
    /\ 1 \in DOMAIN m_entities
    /\ \E i \in DOMAIN m_entities[1].object.gens :
           m_entities[1].object.gens[i].m_currentLodLevel # m_entities[1].lodLevel

\* C32: while an entity stays within range, the timer keeps calling updateAll
\* and time passes, a tick eventually flushes the entity, and a generator
\* whose tier differs from the entity's tier eventually has the entity's tier
\* again, whatever the rate at which the producer calls updateEntityState.
C32_TickEventuallyPropagates ==
    /\ InRange ~> FlushedByTick
    /\ GeneratorLags ~> ~GeneratorLags

\* C33: in every reachable state of the EntityManager each ManagedEntity's
\* visible flag equals isVisible() of its Object3D, and
\* getVisibleEntityCount() is the number of entities whose flag is true,
\* which is the number of entities whose object is visible and is at most
\* getEntityCount().
C33_FlagMatchesObject ==
    /\ \A id \in DOMAIN m_entities :
           m_entities[id].visible = m_entities[id].object.m_visible
    /\ GetVisibleEntityCount =
           Cardinality({id \in DOMAIN m_entities : m_entities[id].object.m_visible})
    /\ GetVisibleEntityCount <= GetEntityCount

\* a tick has culled entity 1: flag and object are both hidden and the
\* visible count is below the entity count
C33_Witness ==
    /\ last.op = "updateAll"
    /\ 1 \in DOMAIN m_entities
    /\ ~m_entities[1].visible
    /\ ~m_entities[1].object.m_visible
    /\ m_entities[1].lastDistance > DISTANCE_FAR
    /\ GetVisibleEntityCount = 0
    /\ GetEntityCount = 1

\* C34: the scheduler never propagates tier 3 to a geometry generator: every
\* entity a tick flushes is at tier 0, 1 or 2 after that tick, and after
\* every step each attached generator's current tier is 0, 1 or 2, also for
\* an entity at distance exactly DISTANCE_FAR, which is at tier 3 and is not
\* culled.
C34_NoTierThreeForGenerators ==
    [][/\ \A id \in DOMAIN m_entities' :
            \A i \in DOMAIN m_entities'[id].object.gens :
                m_entities'[id].object.gens[i].m_currentLodLevel \in 0..2
       /\ last'.op = "updateAll" =>
              \A id \in last'.flushed : m_entities'[id].lodLevel \in 0..2]_vars

\* a tick has left entity 1 at distance exactly DISTANCE_FAR at tier 3,
\* visible and unflushed although UPDATE_INTERVAL_FAR has passed since its
\* last stamp, with a generator attached
C34_Witness ==
    /\ last.op = "updateAll"
    /\ 1 \in DOMAIN m_entities
    /\ m_entities[1].lastDistance = DISTANCE_FAR
    /\ m_entities[1].lodLevel = 3
    /\ m_entities[1].visible
    /\ 1 \notin last.flushed
    /\ last.now - m_entities[1].lastUpdateTime >= UPDATE_INTERVAL_FAR
    /\ Len(m_entities[1].object.gens) = 1
    /\ m_entities[1].object.gens[1].m_currentLodLevel \in 0..2

\* C35 as stated: in every reachable state of a TrackLine, whatever layers
\* argument it was constructed with and whatever setLodLevel and setLayers
\* calls followed, the layer count its geometry is built with is the
\* tessellation parameter of its current tier: 150 at tier 0, 80 at tier 1,
\* 40 at tier 2.
C35_LayersOfCurrentTier ==
    (gen.kind = "track") =>
        gen.param = TrackLayersForLevel(gen.m_currentLodLevel)

\* C36: after a setPosition call each stored position component differs
\* from the submitted one by less than the position epsilon (the altitude,
\* in whole metres, not at all), whatever calls came before, so that
\* sub-epsilon updates never add up to a drift of an epsilon or more; after
\* a setAttitude call the same holds with the attitude epsilon.
C36_StoredWithinEpsilonOfSubmitted ==
    /\ last.op = "setPosition" =>
           /\ Abs(obj.m_longitude - last.args[1]) < POSITION_EPSILON
           /\ Abs(obj.m_latitude - last.args[2]) < POSITION_EPSILON
           /\ AltBelowEps(obj.m_altitude, last.args[3])
    /\ last.op = "setAttitude" =>
           /\ Abs(obj.m_heading - last.args[1]) < ATTITUDE_EPSILON
           /\ Abs(obj.m_pitch - last.args[2]) < ATTITUDE_EPSILON
           /\ Abs(obj.m_roll - last.args[3]) < ATTITUDE_EPSILON

\* a longitude one epsilon from the origin was stored, and a later
\* setPosition half an epsilon further was ignored
C36_Witness ==
    /\ last.op = "setPosition"
    /\ obj.m_longitude = POSITION_EPSILON
    /\ last.args[1] = POSITION_EPSILON + POSITION_EPSILON \div 2
    /\ obj.m_latitude # last.args[2]

\* entity id is registered and its object was never flushed: both transforms
\* are still the identity matrices of the constructor
NeverFlushed(id) ==
    /\ id \in DOMAIN m_entities
    /\ m_entities[id].object.m_earthTransform = IdentityEarth
    /\ m_entities[id].object.m_onceTransform = IdentityOnce

\* C37: createEntity leaves the new entity at tier 1, visible, with
\* lastDistance 0, lastUpdateTime the time of the call and the three dirty
\* flags of its object set; and the first flush of an entity, by a tick or
\* by an update, finds the three flags set, computes both transforms from
\* the stored state and clears the flags, also when no update was ever
\* submitted for the entity.
C37_NewEntityIsDirty ==
    [][/\ (last'.op = "createEntity" /\ last'.ret) =>
              LET e == m_entities'[last'.id] IN
              /\ e.lodLevel = 1
              /\ e.visible
              /\ e.object.m_visible
              /\ e.lastDistance = 0
              /\ e.lastUpdateTime = clock
              /\ e.object.m_positionDirty
              /\ e.object.m_attitudeDirty
              /\ e.object.m_scaleDirty
              /\ e.object.m_earthTransform = IdentityEarth
              /\ e.object.m_onceTransform = IdentityOnce
       /\ \A id \in last'.flushed :
              NeverFlushed(id) =>
                  LET o == m_entities[id].object
                      f == m_entities'[id].object
                  IN /\ o.m_positionDirty /\ o.m_attitudeDirty /\ o.m_scaleDirty
                     /\ ~f.m_positionDirty /\ ~f.m_attitudeDirty /\ ~f.m_scaleDirty
                     /\ f.m_earthTransform = UpdateEarthTransform(f).m_earthTransform
                     /\ f.m_onceTransform = UpdateOnceTransform(f).m_onceTransform
                     /\ f.m_earthTransform # IdentityEarth
                     /\ f.m_onceTransform # IdentityOnce]_vars

\* a tick has flushed entity 1, for which no update was ever submitted: it
\* is still at the constructor's position and both transforms are computed
C37_Witness ==
    /\ last.op = "updateAll"
    /\ 1 \in last.flushed
    /\ m_entities[1].object.m_altitude = 0
    /\ m_entities[1].object.m_earthTransform =
           [ident |-> FALSE, trans |-> WGS_84_RADIUS_EQUATOR, lon |-> 0, lat |-> 0]
    /\ ~m_entities[1].object.m_onceTransform.ident
    /\ ~m_entities[1].object.m_positionDirty
    /\ ~m_entities[1].object.m_attitudeDirty
    /\ ~m_entities[1].object.m_scaleDirty
    /\ h.lastFlush[1] = last.now

\* C38: updateAll called while the manager has no valid camera changes
\* nothing: no entity's tier, lastDistance, visibility, dirty flags or
\* lastUpdateTime (no field of any entity at all), and the frame count is
\* not incremented.
C38_NoCameraNoTick ==
    [][(last'.op = "updateAll" /\ ~m_camera.valid) =>
          /\ m_entities' = m_entities
          /\ m_frameCount' = m_frameCount
          /\ m_camera' = m_camera
          /\ last'.flushed = {}
          /\ ~last'.ret]_vars

\* updateAll has returned at once without a camera, with entity 1 registered,
\* never flushed and older than the interval of its tier
C38_Witness ==
    /\ ~m_camera.valid
    /\ last.op = "updateAll"
    /\ 1 \in DOMAIN m_entities
    /\ m_entities[1].lodLevel = 1
    /\ m_entities[1].object.m_positionDirty
    /\ clock - m_entities[1].lastUpdateTime >= UPDATE_INTERVAL_MID
    /\ m_frameCount = 0
====
